---------------------------- MODULE Spec2Model ----------------------------
(***************************************************************************)
(* A model of the ruyt path tracer (src/src/*.rs): bounding boxes, the     *)
(* primitive tree, the BVH, the linear nearest-hit scans and the recursive *)
(* radiance estimator with the per-pixel sample loop.                      *)
(*                                                                         *)
(* f32 values are IEEE 754 binary32 numbers, bit for bit: a number is a    *)
(* triple <<s, m, e>> standing for s * m * 2^e,                            *)
(*     s = 1 or -1, 2^23 <= m < 2^24, -149 <= e <= 104   a normal number   *)
(*     s = 1 or -1, 0 < m < 2^23, e = -149                a subnormal one   *)
(*     <<1, 0, -149>>, <<-1, 0, -149>>                    +0.0 and -0.0     *)
(*     <<1, 0, 105>>, <<-1, 0, 105>>                      +inf and -inf     *)
(*     <<0, 0, 105>>                                      NaN               *)
(* and every operation rounds to nearest, ties to even, as the hardware    *)
(* does.  1.0 is <<1, 8388608, -23>>.                                      *)
(***************************************************************************)
EXTENDS Integers, Sequences, FiniteSets, TLC

VARIABLES
    pc,        \* position of the modelled run
    abox,      \* Aabb: the receiver of Aabb::hit / Aabb::surround
    bbox2,     \* Aabb: the argument of Aabb::surround
    ray,       \* Ray {origin, direction}
    range,     \* <<tmin, tmax>>
    prims,     \* Vec<Figures>: the primitives the scene is built from
    bvh,       \* Option<BvhNode>: the node BvhNode::new built over prims
    out,       \* results of the operations applied so far
    arg,       \* the arguments of the operation beside the ray and the range
    depth,     \* Scene::color: the depth argument of the current invocation
    stack,     \* Scene::color: the invocations waiting for their recursive call
    ret,       \* Scene::color: the value being returned
    info,      \* Scene::color: what the returning invocation saw and did
    sum,       \* main: the running sum of the pixel's samples
    nsamp,     \* main: the number of samples summed
    pixel      \* main: the Color of the pixel

geomVars == <<abox, bbox2, range, prims, bvh, out, arg>>
colorVars == <<depth, stack, ret, info, sum, nsamp, pixel>>
vars == <<pc, abox, bbox2, ray, range, prims, bvh, out, arg, depth, stack, ret, info, sum, nsamp, pixel>>

----------------------------------------------------------------------------
(* f32 arithmetic                                                          *)

AbsI(i) == IF i < 0 THEN -i ELSE i
MaxI(i, j) == IF i < j THEN j ELSE i

NaN == <<0, 0, 105>>
PInf == <<1, 0, 105>>
NInf == <<-1, 0, 105>>
PZero == <<1, 0, -149>>
NZero == <<-1, 0, -149>>

IsNaN(x) == x[1] = 0
IsInf(x) == x[3] = 105 /\ x[1] # 0
IsZero(x) == x[2] = 0 /\ x[3] # 105
IsFinite(x) == x[3] # 105
Sign(x) == x[1]

\* the number of bits of M (0 for 0)
BitLen2(M) == IF M >= 2 THEN 2 ELSE M
BitLen4(M) == IF M >= 4 THEN 2 + BitLen2(M \div 4) ELSE BitLen2(M)
BitLen8(M) == IF M >= 16 THEN 4 + BitLen4(M \div 16) ELSE BitLen4(M)
BitLen16(M) == IF M >= 256 THEN 8 + BitLen8(M \div 256) ELSE BitLen8(M)
BitLen(M) == IF M >= 65536 THEN 16 + BitLen16(M \div 65536) ELSE BitLen16(M)

\* the f32 of sign s, mantissa m <= 2^24 and exponent e: a mantissa that
\* rounding carried to 2^24 is renormalised, an exponent above 104 overflows
Pack(s, m, e) ==
    IF m = 16777216 THEN (IF e + 1 > 104 THEN <<s, 0, 105>> ELSE <<s, 8388608, e + 1>>)
    ELSE IF m = 0 THEN <<s, 0, -149>>
    ELSE IF e > 104 THEN <<s, 0, 105>>
    ELSE <<s, m, e>>

\* round to nearest, ties to even: q is the kept part, r the dropped part,
\* half the weight of the first dropped bit, sticky whether more was dropped
RoundQ(s, q, r, half, sticky, e) ==
    Pack(s, IF r > half \/ (r = half /\ (sticky \/ q % 2 = 1)) THEN q + 1 ELSE q, e)

RoundShift(s, M, e, sticky, sh) ==
    IF sh <= 0 THEN Pack(s, M * 2^(-sh), e + sh)
    ELSE IF sh > 30 THEN <<s, 0, -149>>
    ELSE RoundQ(s, M \div 2^sh, M % 2^sh, 2^(sh - 1), sticky, e + sh)

\* the f32 nearest to s * (M + f) * 2^e, where 0 <= f < 1 and f > 0 iff
\* sticky (M < 2^30; M has 26 bits or more when sticky)
RoundPack(s, M, e, sticky) ==
    IF M = 0 THEN <<s, 0, -149>>
    ELSE RoundShift(s, M, e, sticky, MaxI(e + BitLen(M) - 24, -149) - e)

\* the mantissa and exponent of a finite non-zero number, normalised to
\* 24 bits (subnormal numbers have fewer)
NormM(x) == IF x[2] >= 8388608 THEN x[2] ELSE x[2] * 2^(24 - BitLen(x[2]))
NormE(x) == IF x[2] >= 8388608 THEN x[3] ELSE x[3] - (24 - BitLen(x[2]))

\* i32 as f32, and the decimal literal n/d
I(i) == IF i = 0 THEN PZero ELSE RoundPack(IF i < 0 THEN -1 ELSE 1, AbsI(i), 0, FALSE)

FNeg(x) == IF IsNaN(x) THEN NaN ELSE <<-x[1], x[2], x[3]>>

\* the 48-bit product a * b as H * 2^24 + L, rounded
MulPack3(s, H, L, e) == RoundPack(s, H * 64 + L \div 262144, e + 18, L % 262144 # 0)
MulPack2(s, H, L0, e) == MulPack3(s, H + L0 \div 16777216, L0 % 16777216, e)
MulPack(s, hi, mid, lo, e) == MulPack2(s, hi + mid \div 4096, (mid % 4096) * 4096 + lo, e)
MulMant(s, a, b, e) ==
    MulPack(s, (a \div 4096) * (b \div 4096),
               (a \div 4096) * (b % 4096) + (a % 4096) * (b \div 4096),
               (a % 4096) * (b % 4096), e)

FMul(x, y) ==
    IF IsNaN(x) \/ IsNaN(y) THEN NaN
    ELSE IF IsInf(x) \/ IsInf(y)
         THEN (IF IsZero(x) \/ IsZero(y) THEN NaN ELSE <<x[1] * y[1], 0, 105>>)
    ELSE IF IsZero(x) \/ IsZero(y) THEN <<x[1] * y[1], 0, -149>>
    ELSE MulMant(x[1] * y[1], NormM(x), NormM(y), NormE(x) + NormE(y))

\* the quotient a / b of two 24-bit mantissas, 7 bits a step, 28 bits
DivStep4(s, Q, r, b, e) == RoundPack(s, Q * 128 + (r * 128) \div b, e, (r * 128) % b # 0)
DivStep3(s, Q, r, b, e) == DivStep4(s, Q * 128 + (r * 128) \div b, (r * 128) % b, b, e)
DivStep2(s, Q, r, b, e) == DivStep3(s, Q * 128 + (r * 128) \div b, (r * 128) % b, b, e)
DivStep1(s, Q, r, b, e) == DivStep2(s, Q * 128 + (r * 128) \div b, (r * 128) % b, b, e)
DivMant(s, a, b, e) == DivStep1(s, a \div b, a % b, b, e - 28)

FDiv(x, y) ==
    IF IsNaN(x) \/ IsNaN(y) THEN NaN
    ELSE IF IsInf(x) THEN (IF IsInf(y) THEN NaN ELSE <<x[1] * y[1], 0, 105>>)
    ELSE IF IsInf(y) THEN <<x[1] * y[1], 0, -149>>
    ELSE IF IsZero(y) THEN (IF IsZero(x) THEN NaN ELSE <<x[1] * y[1], 0, 105>>)
    ELSE IF IsZero(x) THEN <<x[1] * y[1], 0, -149>>
    ELSE DivMant(x[1] * y[1], NormM(x), NormM(y), NormE(x) - NormE(y))

\* |x| < |y| for two numbers that are not NaN
MagLt(x, y) == x[3] < y[3] \/ (x[3] = y[3] /\ x[2] < y[2])

\* x + y for finite non-zero x, y with |x| >= |y|: y is aligned to x with
\* three guard bits, q is its kept part and r what the alignment dropped
AddAligned(x, y, q, r) ==
    IF x[1] = y[1] THEN RoundPack(x[1], x[2] * 8 + q, x[3] - 3, r # 0)
    ELSE IF r # 0 THEN RoundPack(x[1], x[2] * 8 - q - 1, x[3] - 3, TRUE)
    ELSE IF x[2] * 8 = q THEN PZero
    ELSE RoundPack(x[1], x[2] * 8 - q, x[3] - 3, FALSE)

AddMant(x, y) ==
    IF x[3] - y[3] >= 28 THEN x
    ELSE AddAligned(x, y, (y[2] * 8) \div 2^(x[3] - y[3]), (y[2] * 8) % 2^(x[3] - y[3]))

FAdd(x, y) ==
    IF IsNaN(x) \/ IsNaN(y) THEN NaN
    ELSE IF IsInf(x) THEN (IF IsInf(y) /\ x # y THEN NaN ELSE x)
    ELSE IF IsInf(y) THEN y
    ELSE IF IsZero(x) THEN (IF IsZero(y) THEN (IF x = NZero /\ y = NZero THEN NZero ELSE PZero) ELSE y)
    ELSE IF IsZero(y) THEN x
    ELSE IF MagLt(x, y) THEN AddMant(y, x)
    ELSE AddMant(x, y)

FSub(x, y) == FAdd(x, FNeg(y))

Q(n, d) == FDiv(I(n), I(d))

FLt(x, y) ==
    /\ ~IsNaN(x)
    /\ ~IsNaN(y)
    /\ ~(IsZero(x) /\ IsZero(y))
    /\ IF x[1] # y[1] THEN x[1] < y[1]
       ELSE IF x[1] = 1 THEN MagLt(x, y)
       ELSE MagLt(y, x)

FEq(x, y) ==
    /\ ~IsNaN(x)
    /\ ~IsNaN(y)
    /\ (x = y \/ (IsZero(x) /\ IsZero(y)))

FLe(x, y) == FLt(x, y) \/ FEq(x, y)
FGt(x, y) == FLt(y, x)
FGe(x, y) == FLe(y, x)

\* f32::min / f32::max: a NaN operand is ignored
f32_min(x, y) == IF IsNaN(x) THEN y ELSE IF IsNaN(y) THEN x ELSE IF FLt(y, x) THEN y ELSE x
f32_max(x, y) == IF IsNaN(x) THEN y ELSE IF IsNaN(y) THEN x ELSE IF FGt(y, x) THEN y ELSE x

----------------------------------------------------------------------------
(* vector.rs: V3 is a triple of f32                                        *)

V3(x, y, z) == <<x, y, z>>
V3I(x, y, z) == <<I(x), I(y), I(z)>>

V3_add(a, b) == <<FAdd(a[1], b[1]), FAdd(a[2], b[2]), FAdd(a[3], b[3])>>
V3_sub(a, b) == <<FSub(a[1], b[1]), FSub(a[2], b[2]), FSub(a[3], b[3])>>
V3_neg(a) == V3_sub(V3I(0, 0, 0), a)
V3_mul(a, b) == <<FMul(a[1], b[1]), FMul(a[2], b[2]), FMul(a[3], b[3])>>
V3_scale(a, c) == <<FMul(a[1], c), FMul(a[2], c), FMul(a[3], c)>>
V3_dot(a, b) == FAdd(FAdd(FMul(a[1], b[1]), FMul(a[2], b[2])), FMul(a[3], b[3]))

V3_cross(a, b) ==
    <<FSub(FMul(a[2], b[3]), FMul(a[3], b[2])),
      FSub(FMul(a[3], b[1]), FMul(a[1], b[3])),
      FSub(FMul(a[1], b[2]), FMul(a[2], b[1]))>>


----------------------------------------------------------------------------
(* f32::sqrt, `as u8`, and the vector operations built on them             *)

\* the square root of a * 2^28 (a < 2^25) by the digit recurrence, two bits
\* of the radicand a step: i counts the pairs still to bring down
RECURSIVE SqrtBits(_, _, _, _, _)
SqrtStep(a, i, root, r4, e) ==
    IF r4 >= 4 * root + 1
    THEN SqrtBits(a, i - 1, 2 * root + 1, r4 - (4 * root + 1), e)
    ELSE SqrtBits(a, i - 1, 2 * root, r4, e)

SqrtBits(a, i, root, rem, e) ==
    IF i < 0 THEN RoundPack(1, root, e, rem # 0)
    ELSE SqrtStep(a, i, root, rem * 4 + (IF i >= 14 THEN (a \div 4^(i - 14)) % 4 ELSE 0), e)

SqrtMant(m, e) ==
    IF e % 2 = 0 THEN SqrtBits(m, 26, 0, 0, e \div 2 - 14)
    ELSE SqrtBits(2 * m, 26, 0, 0, (e - 1) \div 2 - 14)

FSqrt(x) ==
    IF IsNaN(x) THEN NaN
    ELSE IF IsZero(x) THEN x
    ELSE IF x[1] < 0 THEN NaN
    ELSE IF IsInf(x) THEN PInf
    ELSE SqrtMant(NormM(x), NormE(x))

\* `x as u8`: truncation, saturating at 0 and 255, NaN to 0
f32_as_u8(x) ==
    IF IsNaN(x) THEN 0
    ELSE IF x[1] < 0 THEN 0
    ELSE IF IsInf(x) THEN 255
    ELSE IF x[3] >= 0 THEN (IF x[2] = 0 THEN 0 ELSE 255)
    ELSE IF x[3] < -30 THEN 0
    ELSE IF x[2] \div 2^(-x[3]) > 255 THEN 255
    ELSE x[2] \div 2^(-x[3])

\* std::f32::consts::PI = 0x40490FDB
PI == <<1, 13176795, -22>>

V3_square_norm(a) == V3_dot(a, a)
V3_norm(a) == FSqrt(V3_square_norm(a))
V3_normalize(a) == V3_scale(a, FDiv(I(1), V3_norm(a)))
V3_map_sqrt(a) == <<FSqrt(a[1]), FSqrt(a[2]), FSqrt(a[3])>>

\* the point p of one round of the loop of V3::new_in_unit_sphere, on the
\* three values rand::random returns in it
V3_unit_sphere_round(draws) ==
    V3_sub(V3_scale(V3(draws[1], draws[2], draws[3]), I(2)), V3I(1, 1, 1))

\* V3::new_in_unit_sphere: draws holds the values rand::random returns, three
\* a round, up to the round whose point is returned
RECURSIVE V3_new_in_unit_sphere(_)
V3_new_in_unit_sphere(draws) ==
    IF FLt(V3_square_norm(V3_unit_sphere_round(draws)), I(1))
    THEN V3_unit_sphere_round(draws)
    ELSE V3_new_in_unit_sphere(SubSeq(draws, 4, Len(draws)))

\* the point p of one round of the loop of V3::new_in_unit_disk
V3_unit_disk_round(draws) ==
    V3_sub(V3_scale(V3(draws[1], draws[2], PZero), I(2)), V3I(1, 1, 0))

\* V3::new_in_unit_disk: draws holds the values rand::random returns, two a
\* round, up to the round whose point is returned
RECURSIVE V3_new_in_unit_disk(_)
V3_new_in_unit_disk(draws) ==
    IF FLt(V3_square_norm(V3_unit_disk_round(draws)), I(1))
    THEN V3_unit_disk_round(draws)
    ELSE V3_new_in_unit_disk(SubSeq(draws, 3, Len(draws)))

\* V3U::new: the vector scaled to unit length
V3U_new(v) == V3_normalize(v)

\* Ray {origin: V3, direction: V3U} of vector.rs: a direction given as a V3
\* passes through V3U::new
Ray(o, d) == [origin |-> o, direction |-> V3U_new(d)]

\* the Ray of figures.rs, materials.rs and main.rs: they build rays as struct
\* literals on a V3 and read direction.x(), .dot(), .norm() of it, so that the
\* direction is kept as given and t is a parameter along it
RayV3(o, d) == [origin |-> o, direction |-> d]
extend_at(r, t) == V3_add(r.origin, V3_scale(r.direction, t))

\* std::f32::MAX = 0x7F7FFFFF
F32_MAX == <<1, 16777215, 104>>

----------------------------------------------------------------------------
(* figures.rs: Aabb                                                        *)

Aabb(mn, mx) == [min |-> mn, max |-> mx]

\* mutant: the swap is decided on the direction, not on invD (-0.0 is not < 0)
Aabb_slab_swapOnDirection(b, r, i, tmin, tmax) ==
    LET invD == FDiv(I(1), r.direction[i])
        a0 == FMul(FSub(b.min[i], r.origin[i]), invD)
        a1 == FMul(FSub(b.max[i], r.origin[i]), invD)
        swap == FLt(r.direction[i], I(0))
        t0 == IF swap THEN a1 ELSE a0
        t1 == IF swap THEN a0 ELSE a1
    IN  <<IF FGt(t0, tmin) THEN t0 ELSE tmin, IF FLt(t1, tmax) THEN t1 ELSE tmax>>

\* tmin = if t0 > tmin { t0 } else { tmin }; tmax likewise
Aabb_slab_narrow(t0, t1, tmin, tmax) ==
    <<IF FGt(t0, tmin) THEN t0 ELSE tmin, IF FLt(t1, tmax) THEN t1 ELSE tmax>>

\* if invD < 0.0 { swap(t0, t1) }
Aabb_slab_swap(t0, t1, invD, tmin, tmax) ==
    IF FLt(invD, I(0))
    THEN Aabb_slab_narrow(t1, t0, tmin, tmax)
    ELSE Aabb_slab_narrow(t0, t1, tmin, tmax)

Aabb_slab_times(b, r, i, invD, tmin, tmax) ==
    Aabb_slab_swap(FMul(FSub(b.min[i], r.origin[i]), invD),
                   FMul(FSub(b.max[i], r.origin[i]), invD),
                   invD, tmin, tmax)

\* one axis of the slab test: the narrowed <<tmin, tmax>>
Aabb_slab(b, r, i, tmin, tmax) ==
    Aabb_slab_times(b, r, i, FDiv(I(1), r.direction[i]), tmin, tmax)

\* mutant: the exit bound is never narrowed on the y axis
Aabb_hit_noExitY(b, r, tmin, tmax) ==
    LET sx == Aabb_slab(b, r, 1, tmin, tmax) IN
    IF FLe(sx[2], sx[1]) THEN FALSE
    ELSE LET sy == <<Aabb_slab(b, r, 2, sx[1], sx[2])[1], sx[2]>> IN
         IF FLe(sy[2], sy[1]) THEN FALSE
         ELSE LET sz == Aabb_slab(b, r, 3, sy[1], sy[2]) IN
              IF FLe(sz[2], sz[1]) THEN FALSE ELSE TRUE

\* the test `if tmax <= tmin { return false }` after each axis, then the
\* next axis on the narrowed interval s
Aabb_hit_z(s) == IF FLe(s[2], s[1]) THEN FALSE ELSE TRUE

Aabb_hit_y(b, r, s) ==
    IF FLe(s[2], s[1]) THEN FALSE ELSE Aabb_hit_z(Aabb_slab(b, r, 3, s[1], s[2]))

Aabb_hit_x(b, r, s) ==
    IF FLe(s[2], s[1]) THEN FALSE ELSE Aabb_hit_y(b, r, Aabb_slab(b, r, 2, s[1], s[2]))

Aabb_hit(b, r, tmin, tmax) == Aabb_hit_x(b, r, Aabb_slab(b, r, 1, tmin, tmax))

\* mutant: the z component of min is taken with max
Aabb_surround_maxInMin(a, b) ==
    Aabb(<<f32_min(a.min[1], b.min[1]), f32_min(a.min[2], b.min[2]), f32_max(a.min[3], b.min[3])>>,
         <<f32_max(a.max[1], b.max[1]), f32_max(a.max[2], b.max[2]), f32_max(a.max[3], b.max[3])>>)

Aabb_surround(a, b) ==
    Aabb(<<f32_min(a.min[1], b.min[1]), f32_min(a.min[2], b.min[2]), f32_min(a.min[3], b.min[3])>>,
         <<f32_max(a.max[1], b.max[1]), f32_max(a.max[2], b.max[2]), f32_max(a.max[3], b.max[3])>>)

----------------------------------------------------------------------------
(* figures.rs: the primitive tree.  A figure is a record with a tag; an    *)
(* Option is a sequence of length 0 (None) or 1 (Some).                    *)

None == <<>>
Some(x) == <<x>>
unwrap(o) == o[1]

HitRecord(at, point, normal, u, v) ==
    [at |-> at, point |-> point, normal |-> normal, u |-> u, v |-> v]

\* what a hit returns, with the values rand::random::<f32>() returns to the
\* calls that follow: ConstantMedium::hit takes the first of them each time
\* it samples a distance
Drawn(rec, us) == [rec |-> rec, us |-> us]

\* no call to rand::random is made
NoDraws == <<>>

xy_rect(x0, x1, y0, y1, k) == [tag |-> "XYRect", x0 |-> x0, x1 |-> x1, y0 |-> y0, y1 |-> y1, k |-> k]
yz_rect(y0, y1, z0, z1, k) == [tag |-> "YZRect", y0 |-> y0, y1 |-> y1, z0 |-> z0, z1 |-> z1, k |-> k]
xz_rect(x0, x1, z0, z1, k) == [tag |-> "XZRect", x0 |-> x0, x1 |-> x1, z0 |-> z0, z1 |-> z1, k |-> k]
flip_normals(f) == [tag |-> "FlipNormals", figure |-> f]
translate(offset, f) == [tag |-> "Translate", offset |-> offset, figure |-> f]
figures_group(fs) == [tag |-> "Figures", list |-> fs]
sphere(center, radius) == [tag |-> "Sphere", center |-> center, radius |-> radius]

\* Cuboid::new: the six faces, as a group
cuboid(p0, p1) ==
    [tag |-> "Cuboid", pmin |-> p0, pmax |-> p1,
     figure |-> figures_group(
        <<xy_rect(p0[1], p1[1], p0[2], p1[2], p1[3]),
          flip_normals(xy_rect(p0[1], p1[1], p0[2], p1[2], p0[3])),
          xz_rect(p0[1], p1[1], p0[3], p1[3], p1[2]),
          flip_normals(xz_rect(p0[1], p1[1], p0[3], p1[3], p0[2])),
          yz_rect(p0[2], p1[2], p0[3], p1[3], p1[1]),
          flip_normals(yz_rect(p0[2], p1[2], p0[3], p1[3], p0[1]))>>)]

constant_medium(density, boundary) ==
    [tag |-> "ConstantMedium", density |-> density, boundary |-> boundary]

\* the 0.0001 by which a rectangle's box is extruded along its constant axis
RectEps == Q(1, 10000)

RECURSIVE Figures_hit(_, _, _, _, _)
RECURSIVE Figures_bounding_box(_)

\* the bounds test on the point (x, y) met at t, and the record
XYRect_hit_point(f, r, t, x, y) ==
    IF FLt(x, f.x0) \/ FGt(x, f.x1) \/ FLt(y, f.y0) \/ FGt(y, f.y1) THEN None
    ELSE Some(HitRecord(t, extend_at(r, t), V3I(0, 0, 1),
                        FDiv(FSub(x, f.x0), FSub(f.x1, f.x0)),
                        FDiv(FSub(y, f.y0), FSub(f.y1, f.y0))))

\* the range test `t < tmin || t > tmax` on the plane's t
XYRect_hit_at(f, r, tmin, tmax, t) ==
    IF FLt(t, tmin) \/ FGt(t, tmax) THEN None
    ELSE XYRect_hit_point(f, r, t,
                           FAdd(r.origin[1], FMul(t, r.direction[1])),
                           FAdd(r.origin[2], FMul(t, r.direction[2])))

XYRect_hit(f, r, tmin, tmax) ==
    XYRect_hit_at(f, r, tmin, tmax, FDiv(FSub(f.k, r.origin[3]), r.direction[3]))

XYRect_bounding_box(f) ==
    Some(Aabb(V3(f.x0, f.y0, FSub(f.k, RectEps)), V3(f.x1, f.y1, FAdd(f.k, RectEps))))

\* the bounds test on the point (y, z) met at t, and the record
YZRect_hit_point(f, r, t, y, z) ==
    IF FLt(y, f.y0) \/ FGt(y, f.y1) \/ FLt(z, f.z0) \/ FGt(z, f.z1) THEN None
    ELSE Some(HitRecord(t, extend_at(r, t), V3I(1, 0, 0),
                        FDiv(FSub(y, f.y0), FSub(f.y1, f.y0)),
                        FDiv(FSub(z, f.z0), FSub(f.z1, f.z0))))

\* the range test `t < tmin || t > tmax` on the plane's t
YZRect_hit_at(f, r, tmin, tmax, t) ==
    IF FLt(t, tmin) \/ FGt(t, tmax) THEN None
    ELSE YZRect_hit_point(f, r, t,
                           FAdd(r.origin[2], FMul(t, r.direction[2])),
                           FAdd(r.origin[3], FMul(t, r.direction[3])))

YZRect_hit(f, r, tmin, tmax) ==
    YZRect_hit_at(f, r, tmin, tmax, FDiv(FSub(f.k, r.origin[1]), r.direction[1]))

YZRect_bounding_box(f) ==
    Some(Aabb(V3(FSub(f.k, RectEps), f.y0, f.z0), V3(FAdd(f.k, RectEps), f.y1, f.z1)))

\* the bounds test on the point (x, z) met at t, and the record
XZRect_hit_point(f, r, t, x, z) ==
    IF FLt(x, f.x0) \/ FGt(x, f.x1) \/ FLt(z, f.z0) \/ FGt(z, f.z1) THEN None
    ELSE Some(HitRecord(t, extend_at(r, t), V3I(0, 1, 0),
                        FDiv(FSub(x, f.x0), FSub(f.x1, f.x0)),
                        FDiv(FSub(z, f.z0), FSub(f.z1, f.z0))))

\* the range test `t < tmin || t > tmax` on the plane's t
XZRect_hit_at(f, r, tmin, tmax, t) ==
    IF FLt(t, tmin) \/ FGt(t, tmax) THEN None
    ELSE XZRect_hit_point(f, r, t,
                           FAdd(r.origin[1], FMul(t, r.direction[1])),
                           FAdd(r.origin[3], FMul(t, r.direction[3])))

XZRect_hit(f, r, tmin, tmax) ==
    XZRect_hit_at(f, r, tmin, tmax, FDiv(FSub(f.k, r.origin[2]), r.direction[2]))

XZRect_bounding_box(f) ==
    Some(Aabb(V3(f.x0, FSub(f.k, RectEps), f.z0), V3(f.x1, FAdd(f.k, RectEps), f.z1)))

\* .map(|hit| HitRecord { normal: -hit.normal, ..hit })
FlipNormals_hit_map(d) ==
    IF d.rec = None THEN d
    ELSE Drawn(Some([unwrap(d.rec) EXCEPT !.normal = V3_neg(unwrap(d.rec).normal)]), d.us)

\* mutant: the record is passed on with the child's normal
FlipNormals_hit_notNegated(f, r, tmin, tmax, us) == Figures_hit(f.figure, r, tmin, tmax, us)

FlipNormals_hit(f, r, tmin, tmax, us) ==
    FlipNormals_hit_map(Figures_hit(f.figure, r, tmin, tmax, us))

FlipNormals_bounding_box(f) == Figures_bounding_box(f.figure)

\* .map(|hit| HitRecord { point: hit.point + offset, ..hit })
Translate_hit_map(f, d) ==
    IF d.rec = None THEN d
    ELSE Drawn(Some([unwrap(d.rec) EXCEPT !.point = V3_add(unwrap(d.rec).point, f.offset)]), d.us)

\* mutant: the ray is moved by +offset instead of -offset
Translate_hit_movedWrongWay(f, r, tmin, tmax, us) ==
    Translate_hit_map(f, Figures_hit(f.figure, RayV3(V3_add(r.origin, f.offset), r.direction),
                                     tmin, tmax, us))

Translate_hit(f, r, tmin, tmax, us) ==
    Translate_hit_map(f, Figures_hit(f.figure, RayV3(V3_sub(r.origin, f.offset), r.direction),
                                     tmin, tmax, us))

\* the closure rebuilds the child's box from its own min and max
Translate_bounding_box_map(o) ==
    IF o = None THEN None
    ELSE Some(Aabb(unwrap(o).min, unwrap(o).max))

Translate_bounding_box(f) == Translate_bounding_box_map(Figures_bounding_box(f.figure))

\* Option::or
Option_or(a, b) == IF a # None THEN a ELSE b

\* the closure `check` of Sphere::hit
Sphere_check(f, r, tmin, tmax, at) ==
    IF FLt(tmin, at) /\ FLt(at, tmax)
    THEN Some(HitRecord(at, extend_at(r, at),
                        V3_scale(V3_sub(extend_at(r, at), f.center), FDiv(I(1), f.radius)),
                        I(1), I(1)))
    ELSE None

\* mutant: the far root is tried first
Sphere_hit_roots_farFirst(f, r, tmin, tmax, a, b, discriminant) ==
    IF FGt(discriminant, I(0))
    THEN Option_or(Sphere_check(f, r, tmin, tmax, FDiv(FAdd(FNeg(b), FSqrt(discriminant)), a)),
                   Sphere_check(f, r, tmin, tmax, FDiv(FSub(FNeg(b), FSqrt(discriminant)), a)))
    ELSE None

Sphere_hit_roots(f, r, tmin, tmax, a, b, discriminant) ==
    IF FGt(discriminant, I(0))
    THEN Option_or(Sphere_check(f, r, tmin, tmax, FDiv(FSub(FNeg(b), FSqrt(discriminant)), a)),
                   Sphere_check(f, r, tmin, tmax, FDiv(FAdd(FNeg(b), FSqrt(discriminant)), a)))
    ELSE None

Sphere_hit_abc(f, r, tmin, tmax, a, b, c) ==
    Sphere_hit_roots(f, r, tmin, tmax, a, b, FSub(FMul(b, b), FMul(a, c)))

Sphere_hit_oc(f, r, tmin, tmax, oc) ==
    Sphere_hit_abc(f, r, tmin, tmax, V3_square_norm(r.direction), V3_dot(oc, r.direction),
                   FSub(V3_square_norm(oc), FMul(f.radius, f.radius)))

Sphere_hit(f, r, tmin, tmax) == Sphere_hit_oc(f, r, tmin, tmax, V3_sub(r.origin, f.center))

Sphere_bounding_box(f) ==
    Some(Aabb(V3_sub(f.center, V3(f.radius, f.radius, f.radius)),
              V3_add(f.center, V3(f.radius, f.radius, f.radius))))

Cuboid_hit(f, r, tmin, tmax, us) == Figures_hit(f.figure, r, tmin, tmax, us)

Cuboid_bounding_box(f) == Some(Aabb(f.pmin, f.pmax))

\* an angle, in degrees, that is no multiple of 90
ObliqueAngle == Q(3687, 100)

\* f32::sin and f32::cos at the radians of the angles rotate_y is given:
\* 0, 15, 36.87, 90 and 180 degrees
f32_sin(x) ==
    CASE IsZero(x) -> x
      [] x = <<1, 8784530, -25>> -> <<1, 8684526, -25>>
      [] x = <<1, 10796187, -24>> -> <<1, 10066354, -24>>
      [] x = <<1, 13176795, -23>> -> <<1, 8388608, -23>>
      [] x = <<1, 13176795, -22>> -> <<-1, 12303662, -47>>
f32_cos(x) ==
    CASE IsZero(x) -> I(1)
      [] x = <<1, 8784530, -25>> -> <<1, 16205546, -24>>
      [] x = <<1, 10796187, -24>> -> <<1, 13421755, -24>>
      [] x = <<1, 13176795, -23>> -> <<-1, 12303662, -48>>
      [] x = <<1, 13176795, -22>> -> <<-1, 8388608, -23>>

\* the corner (i, j, k) of bbox
RotateY_corner(bbox, i, j, k) ==
    V3(FAdd(FMul(I(i), bbox.max[1]), FMul(FSub(I(1), I(i)), bbox.min[1])),
       FAdd(FMul(I(j), bbox.max[2]), FMul(FSub(I(1), I(j)), bbox.min[2])),
       FAdd(FMul(I(k), bbox.max[3]), FMul(FSub(I(1), I(k)), bbox.min[3])))

\* tester = V3(newx, y, newz)
RotateY_tester(sin_theta, cos_theta, c) ==
    V3(FAdd(FMul(cos_theta, c[1]), FMul(sin_theta, c[3])),
       c[2],
       FAdd(FMul(FNeg(sin_theta), c[1]), FMul(cos_theta, c[3])))

\* the three nested loops over the corners, n = 4 i + 2 j + k:
\* the box of <<min, max>> after them
RECURSIVE RotateY_new_loop(_, _, _, _, _, _)

RotateY_new_step(bbox, sin_theta, cos_theta, n, min, max, tester) ==
    RotateY_new_loop(bbox, sin_theta, cos_theta, n + 1,
        V3(f32_min(tester[1], min[1]), f32_min(tester[2], min[2]), f32_min(tester[3], min[3])),
        V3(f32_max(tester[1], max[1]), f32_max(tester[2], max[2]), f32_max(tester[3], max[3])))

RotateY_new_loop(bbox, sin_theta, cos_theta, n, min, max) ==
    IF n = 8 THEN Aabb(min, max)
    ELSE RotateY_new_step(bbox, sin_theta, cos_theta, n, min, max,
            RotateY_tester(sin_theta, cos_theta,
                           RotateY_corner(bbox, n \div 4, (n \div 2) % 2, n % 2)))

RotateY_new(radians, figure) ==
    [tag |-> "RotateY",
     sin_theta |-> f32_sin(radians),
     cos_theta |-> f32_cos(radians),
     figure |-> figure,
     bbox |-> RotateY_new_loop(unwrap(Figures_bounding_box(figure)),
                               f32_sin(radians), f32_cos(radians), 0,
                               V3(F32_MAX, F32_MAX, F32_MAX),
                               V3(FNeg(F32_MAX), FNeg(F32_MAX), FNeg(F32_MAX)))]

rotate_y(angle, figure) == RotateY_new(FMul(FDiv(PI, I(180)), angle), figure)

\* the rotation of the incoming ray's origin and direction
RotateY_in(f, v) ==
    V3(FSub(FMul(f.cos_theta, v[1]), FMul(f.sin_theta, v[3])),
       v[2],
       FAdd(FMul(f.sin_theta, v[1]), FMul(f.cos_theta, v[3])))

\* the rotation of the returned point and normal
RotateY_out(f, v) ==
    V3(FAdd(FMul(f.cos_theta, v[1]), FMul(f.sin_theta, v[3])),
       v[2],
       FAdd(FMul(FNeg(f.sin_theta), v[1]), FMul(f.cos_theta, v[3])))

RotateY_hit_map(f, d) ==
    IF d.rec = None THEN d
    ELSE Drawn(Some([unwrap(d.rec) EXCEPT !.point = RotateY_out(f, unwrap(d.rec).point),
                                          !.normal = RotateY_out(f, unwrap(d.rec).normal)]),
               d.us)

\* mutant: the x component of the incoming ray is rotated with sin and cos
\* exchanged
RotateY_hit_sinForCos(f, r, tmin, tmax, us) ==
    RotateY_hit_map(f,
        Figures_hit(f.figure,
            RayV3(V3(FSub(FMul(f.sin_theta, r.origin[1]), FMul(f.cos_theta, r.origin[3])),
                   r.origin[2],
                   FAdd(FMul(f.sin_theta, r.origin[1]), FMul(f.cos_theta, r.origin[3]))),
                RotateY_in(f, r.direction)),
            tmin, tmax, us))

\* the rotation of the returned point and normal, done the way the ray was
RotateY_hit_map_in(f, d) ==
    IF d.rec = None THEN d
    ELSE Drawn(Some([unwrap(d.rec) EXCEPT !.point = RotateY_in(f, unwrap(d.rec).point),
                                          !.normal = RotateY_in(f, unwrap(d.rec).normal)]),
               d.us)

\* mutant: the point and the normal are rotated the way the ray was
RotateY_hit_rotatedTwice(f, r, tmin, tmax, us) ==
    RotateY_hit_map_in(f, Figures_hit(f.figure,
                                      RayV3(RotateY_in(f, r.origin), RotateY_in(f, r.direction)),
                                      tmin, tmax, us))

RotateY_hit(f, r, tmin, tmax, us) ==
    RotateY_hit_map(f, Figures_hit(f.figure,
                                   RayV3(RotateY_in(f, r.origin), RotateY_in(f, r.direction)),
                                   tmin, tmax, us))

RotateY_bounding_box(f) == Some(f.bbox)

\* std::f32::consts::E = 0x402DF854
E == <<1, 11401300, -22>>

\* f32::ln at E and at the values rand::random::<f32>() is modelled to
\* return: 0, 1/3, 1/2, 2/3 and 99/100
f32_ln(u) ==
    CASE IsZero(u) -> NInf
      [] u = E -> <<1, 16777215, -24>>
      [] u = <<1, 11184811, -25>> -> <<-1, 9215828, -23>>
      [] u = <<1, 8388608, -24>> -> <<-1, 11629080, -24>>
      [] u = <<1, 11184811, -24>> -> <<-1, 13605150, -25>>
      [] u = <<1, 16609444, -24>> -> <<-1, 10791456, -30>>

\* f32::log(self, base): self.ln() / base.ln()
f32_log(u, base) == FDiv(f32_ln(u), f32_ln(base))

\* if hit_distance < distance_inside_boundary { .. Some(HitRecord {..}) }
ConstantMedium_hit_distance(r, at1, norm, distance_inside_boundary, hit_distance) ==
    IF FLt(hit_distance, distance_inside_boundary)
    THEN Some(HitRecord(FAdd(at1, FDiv(hit_distance, norm)),
                        extend_at(r, FAdd(at1, FDiv(hit_distance, norm))),
                        V3I(1, 0, 0), I(0), I(0)))
    ELSE None

\* the two distances, from rec1.at (clamped at 0.0), rec2.at, the norm and
\* the value u that rand::random::<f32>() returns
ConstantMedium_hit_inside(f, r, at1, at2, norm, u) ==
    ConstantMedium_hit_distance(r, at1, norm,
        FMul(FSub(at2, at1), norm),
        FMul(FNeg(FDiv(I(1), f.density)), f32_log(u, E)))

\* if rec1.at >= rec2.at { return None }; if rec1.at < 0.0 { rec1.at = 0.0 };
\* then the one call to rand::random of this invocation
ConstantMedium_hit_clamped(f, r, at1, at2, us) ==
    IF FGe(at1, at2) THEN Drawn(None, us)
    ELSE Drawn(ConstantMedium_hit_inside(f, r, IF FLt(at1, I(0)) THEN I(0) ELSE at1, at2,
                                         V3_norm(r.direction), Head(us)),
               Tail(us))

\* rec1.at and rec2.at are clamped to tmin and tmax
ConstantMedium_hit_rec2(f, r, tmin, tmax, at1, d2) ==
    IF d2.rec = None THEN d2
    ELSE ConstantMedium_hit_clamped(f, r,
            IF FLt(at1, tmin) THEN tmin ELSE at1,
            IF FGt(unwrap(d2.rec).at, tmax) THEN tmax ELSE unwrap(d2.rec).at,
            d2.us)

\* the exit hit is searched from rec1.at + 0.0001
ConstantMedium_hit_rec1(f, r, tmin, tmax, d1) ==
    IF d1.rec = None THEN d1
    ELSE ConstantMedium_hit_rec2(f, r, tmin, tmax, unwrap(d1.rec).at,
            Figures_hit(f.boundary, r, FAdd(unwrap(d1.rec).at, Q(1, 10000)), F32_MAX, d1.us))

\* the entry hit is searched over (std::f32::MIN, std::f32::MAX)
ConstantMedium_hit(f, r, tmin, tmax, us) ==
    ConstantMedium_hit_rec1(f, r, tmin, tmax,
                            Figures_hit(f.boundary, r, FNeg(F32_MAX), F32_MAX, us))

ConstantMedium_bounding_box(f) == Figures_bounding_box(f.boundary)

\* the loop of Figures::Figures over the figures fs: the record after the
\* loop
RECURSIVE scan_loop(_, _, _, _, _, _)

\* the `if let Some(rec) = object.hit(..)` of one iteration, then the rest of
\* the loop
scan_match(rest, r, tmin, closest_parameter, record, d) ==
    IF d.rec # None
    THEN scan_loop(rest, r, tmin, unwrap(d.rec).at, d.rec, d.us)
    ELSE scan_loop(rest, r, tmin, closest_parameter, record, d.us)

scan_loop(fs, r, tmin, closest_parameter, record, us) ==
    IF fs = <<>> THEN Drawn(record, us)
    ELSE scan_match(Tail(fs), r, tmin, closest_parameter, record,
                    Figures_hit(Head(fs), r, tmin, closest_parameter, us))

Group_hit(f, r, tmin, tmax, us) == scan_loop(f.list, r, tmin, tmax, None, us)

\* match (hit_left, hit_right)
BvhNode_hit_match(hit_left, hit_right) ==
    IF hit_left # None /\ hit_right # None
    THEN (IF FLt(unwrap(hit_left).at, unwrap(hit_right).at) THEN hit_left ELSE hit_right)
    ELSE IF hit_left # None THEN hit_left
    ELSE IF hit_right # None THEN hit_right
    ELSE None

\* self.right.hit(ray, tmin, tmax), after the left child's hit
BvhNode_hit_right(hit_left, d) == Drawn(BvhNode_hit_match(hit_left, d.rec), d.us)

\* self.left.hit(ray, tmin, tmax), the first component of the tuple
BvhNode_hit_left(f, r, tmin, tmax, d) ==
    BvhNode_hit_right(d.rec, Figures_hit(f.right, r, tmin, tmax, d.us))

BvhNode_hit(f, r, tmin, tmax, us) ==
    IF Aabb_hit(f.bbox, r, tmin, tmax)
    THEN BvhNode_hit_left(f, r, tmin, tmax, Figures_hit(f.left, r, tmin, tmax, us))
    ELSE Drawn(None, us)

BvhNode_bounding_box(f) == Some(f.bbox)

Figures_hit(f, r, tmin, tmax, us) ==
    CASE f.tag = "Sphere" -> Drawn(Sphere_hit(f, r, tmin, tmax), us)
      [] f.tag = "XYRect" -> Drawn(XYRect_hit(f, r, tmin, tmax), us)
      [] f.tag = "YZRect" -> Drawn(YZRect_hit(f, r, tmin, tmax), us)
      [] f.tag = "XZRect" -> Drawn(XZRect_hit(f, r, tmin, tmax), us)
      [] f.tag = "FlipNormals" -> FlipNormals_hit(f, r, tmin, tmax, us)
      [] f.tag = "Cuboid" -> Cuboid_hit(f, r, tmin, tmax, us)
      [] f.tag = "Translate" -> Translate_hit(f, r, tmin, tmax, us)
      [] f.tag = "RotateY" -> RotateY_hit(f, r, tmin, tmax, us)
      [] f.tag = "ConstantMedium" -> ConstantMedium_hit(f, r, tmin, tmax, us)
      [] f.tag = "BvhNode" -> BvhNode_hit(f, r, tmin, tmax, us)
      [] f.tag = "Figures" -> Group_hit(f, r, tmin, tmax, us)

\* Figures::Figures has no bounding box (unimplemented!()): no case for it
Figures_bounding_box(f) ==
    CASE f.tag = "Sphere" -> Sphere_bounding_box(f)
      [] f.tag = "XYRect" -> XYRect_bounding_box(f)
      [] f.tag = "YZRect" -> YZRect_bounding_box(f)
      [] f.tag = "XZRect" -> XZRect_bounding_box(f)
      [] f.tag = "FlipNormals" -> FlipNormals_bounding_box(f)
      [] f.tag = "Cuboid" -> Cuboid_bounding_box(f)
      [] f.tag = "Translate" -> Translate_bounding_box(f)
      [] f.tag = "RotateY" -> RotateY_bounding_box(f)
      [] f.tag = "ConstantMedium" -> ConstantMedium_bounding_box(f)
      [] f.tag = "BvhNode" -> BvhNode_bounding_box(f)

----------------------------------------------------------------------------
(* figures.rs: BvhNode::new                                                *)

\* `x as i32` for a finite f32: truncation toward zero
f32_as_i32(x) ==
    IF x[3] >= 0 THEN x[1] * x[2] * 2^x[3]
    ELSE IF x[3] < -30 THEN 0
    ELSE x[1] * (x[2] \div 2^(-x[3]))

\* values rand::random::<f32>() is modelled to return, all in [0, 1)
Rand01 == {PZero, Q(1, 3), Q(1, 2), Q(2, 3), Q(99, 100)}

\* the key of box_x_compare / box_y_compare / box_z_compare
box_min(f, axis) == unwrap(Figures_bounding_box(f)).min[axis + 1]

\* partial_cmp(..).unwrap_or(Equal) = Greater
box_greater(l, r, axis) == FGt(box_min(l, axis), box_min(r, axis))

\* the sort of a short slice: insertion after the last element not greater
RECURSIVE sort_insert(_, _, _)
sort_insert(sorted, f, axis) ==
    IF sorted = <<>> THEN <<f>>
    ELSE IF box_greater(sorted[Len(sorted)], f, axis)
         THEN Append(sort_insert(SubSeq(sorted, 1, Len(sorted) - 1), f, axis), sorted[Len(sorted)])
         ELSE Append(sorted, f)

RECURSIVE sort_insertion(_, _)
sort_insertion(fs, axis) ==
    IF fs = <<>> THEN <<>>
    ELSE sort_insert(sort_insertion(SubSeq(fs, 1, Len(fs) - 1), axis), fs[Len(fs)], axis)

\* the comparison orders fs totally.  unwrap_or(Equal) makes a NaN minimum
\* equal to every other, which is no order once two of the others differ.
box_total_order(fs, axis) ==
    ~ \E i, j, k \in DOMAIN fs :
        /\ IsNaN(box_min(fs[i], axis))
        /\ FLt(box_min(fs[j], axis), box_min(fs[k], axis))

\* fs without its element i
seq_remove(fs, i) == SubSeq(fs, 1, i - 1) \o SubSeq(fs, i + 1, Len(fs))

\* the first place of x in fs
seq_first(fs, x) == CHOOSE i \in DOMAIN fs : fs[i] = x /\ \A j \in 1 .. i - 1 : fs[j] # x

\* every order the elements of fs can be put in
RECURSIVE seq_orders(_)
seq_orders(fs) ==
    IF fs = <<>> THEN {<<>>}
    ELSE UNION {{<<x>> \o rest : rest \in seq_orders(seq_remove(fs, seq_first(fs, x)))}
                    : x \in {fs[i] : i \in DOMAIN fs}}

\* what Vec::sort_by(compare) can do, as Some(the sorted list) or None for a
\* panic.  It is a stable sort: where the comparison is a total order the
\* result is the one stable order.  Slices of at most 20 elements are sorted
\* by insertion whatever the comparison answers.  On a longer slice whose
\* comparison is no total order the order of the result is unspecified and
\* the sort may panic instead.
sort_by(fs, axis) ==
    IF Len(fs) <= 20 \/ box_total_order(fs, axis)
    THEN {Some(sort_insertion(fs, axis))}
    ELSE {None} \cup {Some(sorted) : sorted \in seq_orders(fs)}

\* the branch `if axis == 0 .. else if axis == 1 .. else ..`
sort_axis(axis) == IF axis = 0 THEN 0 ELSE IF axis = 1 THEN 1 ELSE 2

\* mutant: the cached box is the left child's alone
bvh_node_of_leftBox(box_left, box_right) ==
    [tag |-> "BvhNode",
     bbox |-> unwrap(Figures_bounding_box(box_left)),
     left |-> box_left,
     right |-> box_right]

bvh_node_of(box_left, box_right) ==
    [tag |-> "BvhNode",
     bbox |-> Aabb_surround(unwrap(Figures_bounding_box(box_left)),
                            unwrap(Figures_bounding_box(box_right))),
     left |-> box_left,
     right |-> box_right]

\* every node BvhNode::new(figures) can return, over the random axis draws
\* made at each node (figures non-empty)
RECURSIVE BvhNode_new(_)

\* the nodes built over the sorted list: n == 1, n == 2, or the two halves
BvhNode_new_split(sorted) ==
    IF Len(sorted) = 1 THEN {bvh_node_of(sorted[1], sorted[1])}
    ELSE IF Len(sorted) = 2 THEN {bvh_node_of(sorted[1], sorted[2])}
    ELSE {bvh_node_of(l, r) :
            l \in BvhNode_new(SubSeq(sorted, 1, Len(sorted) \div 2)),
            r \in BvhNode_new(SubSeq(sorted, Len(sorted) \div 2 + 1, Len(sorted)))}

\* the nodes built after the sort, none when the sort panics
BvhNode_new_sorted(sorted) ==
    IF sorted = None THEN {} ELSE BvhNode_new_split(unwrap(sorted))

BvhNode_new(figures) ==
    UNION {BvhNode_new_sorted(sorted) :
            sorted \in UNION {sort_by(figures, sort_axis(f32_as_i32(FMul(I(3), u))))
                                : u \in Rand01}}

----------------------------------------------------------------------------
(* main.rs: Scene::hit.  An object is a figure with a material; the        *)
(* returned &Objects is modelled by the object's index.                    *)

Objects(figure, material) == [figure |-> figure, material |-> material]

RECURSIVE Scene_hit_loop(_, _, _, _, _, _, _)

\* the `if let Some(rec) = object.figure.hit(..)` of iteration i, then the
\* rest of the loop
Scene_hit_match(objects, i, r, t_min, closest_parameter, record, d) ==
    IF d.rec # None
    THEN Scene_hit_loop(objects, i + 1, r, t_min, unwrap(d.rec).at,
                        Some(<<unwrap(d.rec), i>>), d.us)
    ELSE Scene_hit_loop(objects, i + 1, r, t_min, closest_parameter, record, d.us)

Scene_hit_loop(objects, i, r, t_min, closest_parameter, record, us) ==
    IF i > Len(objects) THEN Drawn(record, us)
    ELSE Scene_hit_match(objects, i, r, t_min, closest_parameter, record,
                         Figures_hit(objects[i].figure, r, t_min, closest_parameter, us))

Scene_hit(objects, r, t_min, t_max, us) ==
    Scene_hit_loop(objects, 1, r, t_min, t_max, None, us)

----------------------------------------------------------------------------
(* Bounds of the model and input sets                                      *)

\* coordinates of ray origins range over -1 .. MaxCoord
MaxCoord == 3

\* the longest list of primitives handed to BvhNode::new and to the scans
MaxFigures == 3

Axes == {1, 2, 3}

Coords == {I(i) : i \in -1 .. MaxCoord}

Origins == {V3(x, y, z) : x \in Coords, y \in Coords, z \in Coords}

\* direction components; both zeros are f32 values
DirComps == {I(-1), NZero, PZero, I(1), I(2)}

\* the vectors rays are built on; V3U::new of the zero vector is NaN on
\* every component, and no ray of the renderer is built on it
Directions ==
    {d \in {V3(x, y, z) : x \in DirComps, y \in DirComps, z \in DirComps} :
        ~(IsZero(d[1]) /\ IsZero(d[2]) /\ IsZero(d[3]))}

\* boxes handed to Aabb::hit: min <= max on every axis
HitBoxes == {Aabb(V3I(0, 0, 0), V3I(2, 2, 2)), Aabb(V3I(0, 1, 1), V3I(1, 1, 3))}

HitRanges == {<<I(0), PInf>>, <<Q(1, 1000), F32_MAX>>, <<I(1), I(2)>>}

\* boxes handed to Aabb::surround: per axis any pair of 0 .. MaxCoord - 2,
\* so boxes with min > max on some axis are among them
SurCoords == {I(i) : i \in 0 .. MaxCoord - 2}

SurBoxes ==
    {Aabb(V3(a, b, c), V3(d, e, f)) :
        a \in SurCoords, b \in SurCoords, c \in SurCoords,
        d \in SurCoords, e \in SurCoords, f \in SurCoords}

SurOthers ==
    {Aabb(V3I(0, 0, 0), V3I(1, 1, 1)), Aabb(V3I(1, 0, 1), V3I(2, 1, 1)),
     Aabb(V3I(-1, 2, 0), V3I(0, 3, 3)), Aabb(V3I(1, 1, 1), V3I(0, 0, 0)),
     Aabb(V3I(0, 1, 0), V3I(0, 2, 1))}

NoBox == Aabb(V3I(0, 0, 0), V3I(0, 0, 0))
NoRay == Ray(V3I(0, 0, 0), V3I(0, 0, 1))
NoRange == <<I(0), I(0)>>
NoOut == [op |-> "none"]
NoArg == [op |-> "none"]
NoInfo == [hit |-> FALSE, depth |-> 0, is_scattered |-> FALSE,
           emitted |-> V3I(0, 0, 0), calls |-> 0]
NoPixel == <<0, 0, 0>>

\* the integrator's variables while no pixel is being rendered
ColorIdle ==
    /\ depth = 0
    /\ stack = <<>>
    /\ ret = V3I(0, 0, 0)
    /\ info = NoInfo
    /\ sum = V3I(0, 0, 0)
    /\ nsamp = 0
    /\ pixel = NoPixel

----------------------------------------------------------------------------
(* SpecAabb: Aabb::hit and Aabb::surround applied to drawn inputs          *)

InitAabb ==
    /\ out = NoOut
    /\ arg = NoArg
    /\ ColorIdle
    /\ prims = <<>>
    /\ bvh = None
    /\ \/ /\ pc = "aabb_hit"
          /\ abox \in HitBoxes
          /\ bbox2 = NoBox
          /\ ray \in {Ray(o, d) : o \in Origins, d \in Directions}
          /\ range \in HitRanges
       \/ /\ pc = "surround"
          /\ abox \in SurBoxes
          /\ bbox2 \in SurOthers
          /\ ray = NoRay
          /\ range = NoRange

DoAabbHit ==
    /\ pc = "aabb_hit"
    /\ out' = [op |-> "aabb_hit", res |-> Aabb_hit(abox, ray, range[1], range[2])]
    /\ pc' = "done"
    /\ UNCHANGED <<abox, bbox2, ray, range, prims, bvh, arg>>
    /\ UNCHANGED colorVars

DoSurround ==
    /\ pc = "surround"
    /\ out' = [op |-> "surround", res |-> Aabb_surround(abox, bbox2)]
    /\ pc' = "done"
    /\ UNCHANGED <<abox, bbox2, ray, range, prims, bvh, arg>>
    /\ UNCHANGED colorVars

NextAabb == DoAabbHit \/ DoSurround

SpecAabb == InitAabb /\ [][NextAabb]_vars

----------------------------------------------------------------------------
(* Claims about Aabb                                                       *)

ValidBox(b) == \A i \in Axes : FLe(b.min[i], b.max[i])

\* C8: A.surround(B) has, on every axis, min equal to the smaller of the two
\* mins and max equal to the larger of the two maxes: it contains A and B,
\* every box containing both contains it, it is commutative, and it keeps
\* min <= max when both inputs have it.
C8_Surround ==
    (pc = "done" /\ out.op = "surround") =>
        LET s == out.res IN
        /\ \A i \in Axes :
            /\ s.min[i] \in {abox.min[i], bbox2.min[i]}
            /\ s.max[i] \in {abox.max[i], bbox2.max[i]}
            /\ FLe(s.min[i], abox.min[i]) /\ FLe(s.min[i], bbox2.min[i])
            /\ FGe(s.max[i], abox.max[i]) /\ FGe(s.max[i], bbox2.max[i])
            /\ \A lo \in SurCoords \cup {I(-1)} :
                (FLe(lo, abox.min[i]) /\ FLe(lo, bbox2.min[i])) => FLe(lo, s.min[i])
            /\ \A hi \in SurCoords \cup {I(3)} :
                (FGe(hi, abox.max[i]) /\ FGe(hi, bbox2.max[i])) => FGe(hi, s.max[i])
        /\ s = Aabb_surround(bbox2, abox)
        /\ (ValidBox(abox) /\ ValidBox(bbox2)) => ValidBox(s)

C8_Witness ==
    /\ pc = "done"
    /\ out.op = "surround"
    /\ ValidBox(abox) /\ ValidBox(bbox2)
    /\ out.res # abox
    /\ out.res # bbox2

\* the largest / smallest element of a finite set of non-NaN numbers
MaxOf(S) == CHOOSE x \in S : \A y \in S : FLe(y, x)
MinOf(S) == CHOOSE x \in S : \A y \in S : FLe(x, y)

\* the parametric distances at which the ray enters and leaves slab i
SlabEntry(b, r, i) ==
    IF FLt(r.direction[i], I(0))
    THEN FDiv(FSub(b.max[i], r.origin[i]), r.direction[i])
    ELSE FDiv(FSub(b.min[i], r.origin[i]), r.direction[i])

SlabExit(b, r, i) ==
    IF FLt(r.direction[i], I(0))
    THEN FDiv(FSub(b.min[i], r.origin[i]), r.direction[i])
    ELSE FDiv(FSub(b.max[i], r.origin[i]), r.direction[i])

NonZeroDir(r) == \A i \in Axes : ~IsZero(r.direction[i])

\* C9: with all direction components non-zero, Aabb::hit is true iff the
\* intersection of [tmin, tmax] with the three slab intervals has strictly
\* positive length.
C9_SlabTest ==
    (pc = "done" /\ out.op = "aabb_hit" /\ NonZeroDir(ray)) =>
        LET lo == MaxOf({range[1]} \cup {SlabEntry(abox, ray, i) : i \in Axes})
            hi == MinOf({range[2]} \cup {SlabExit(abox, ray, i) : i \in Axes})
        IN  out.res = FLt(lo, hi)

C9_Witness ==
    /\ pc = "done"
    /\ out.op = "aabb_hit"
    /\ NonZeroDir(ray)
    /\ out.res = TRUE
    /\ FLt(ray.direction[2], I(0))
    /\ FGt(SlabEntry(abox, ray, 2), range[1])

\* the slab test over the axes of `axes` alone, with the code's early exits
RECURSIVE SlabsOver(_, _, _, _, _)
SlabsOver(b, r, axes, tmin, tmax) ==
    IF FLe(tmax, tmin) THEN FALSE
    ELSE IF axes = <<>> THEN TRUE
    ELSE LET s == Aabb_slab(b, r, Head(axes), tmin, tmax)
         IN  SlabsOver(b, r, Tail(axes), s[1], s[2])

OtherAxes(i) == IF i = 1 THEN <<2, 3>> ELSE IF i = 2 THEN <<1, 3>> ELSE <<1, 2>>

\* C10: with a zero direction component on axis i, Aabb::hit returns a
\* boolean; it is false when the origin lies strictly outside the box's extent
\* on axis i, and axis i imposes no narrowing when the origin lies strictly
\* inside it.
C10_ZeroDirection ==
    (pc = "done" /\ out.op = "aabb_hit") =>
        /\ out.res \in BOOLEAN
        /\ \A i \in Axes :
            IsZero(ray.direction[i]) =>
                /\ (FLt(ray.origin[i], abox.min[i]) \/ FGt(ray.origin[i], abox.max[i]))
                        => out.res = FALSE
                /\ (FGt(ray.origin[i], abox.min[i]) /\ FLt(ray.origin[i], abox.max[i]))
                        => out.res = SlabsOver(abox, ray, OtherAxes(i), range[1], range[2])

C10_Witness ==
    /\ pc = "done"
    /\ out.op = "aabb_hit"
    /\ ray.direction[1] = NZero
    /\ FGt(ray.origin[1], abox.min[1]) /\ FLt(ray.origin[1], abox.max[1])
    /\ out.res = TRUE

----------------------------------------------------------------------------
(* Spec: a scene is built from a list of primitives (BvhNode::new), then a *)
(* ray is traced through the BVH, through the group of the same primitives  *)
(* and through the scene's object list.                                    *)

\* pairwise non-overlapping boxes, as bounding_box reports them
FigurePool ==
    <<xy_rect(I(0), I(2), I(0), I(2), I(0)),
      flip_normals(yz_rect(I(0), I(2), I(0), I(2), I(4))),
      translate(V3I(3, 0, 0), xy_rect(I(0), I(2), I(0), I(2), I(1))),
      xy_rect(I(0), I(2), I(0), I(2), I(2))>>

Injective(q) == \A i, j \in DOMAIN q : i # j => q[i] # q[j]

FigureLists ==
    {[i \in 1 .. Len(q) |-> FigurePool[q[i]]] :
        q \in {q \in UNION {[1 .. n -> DOMAIN FigurePool] : n \in 1 .. MaxFigures} : Injective(q)}}

Overlap(a, b) == \A i \in Axes : FLe(a.min[i], b.max[i]) /\ FLe(b.min[i], a.max[i])

NonOverlapping(fs) ==
    \A i, j \in DOMAIN fs :
        i # j => ~Overlap(unwrap(Figures_bounding_box(fs[i])), unwrap(Figures_bounding_box(fs[j])))

GeomRays ==
    {RayV3(V3I(x, y, z), d) :
        x \in {-1, 1, 4}, y \in {-1, 1}, z \in {-1, 0, 3},
        d \in {V3I(0, 0, 1), V3I(0, 0, -1), V3I(1, 1, 1), V3I(1, 0, 0), V3I(-1, 0, -2)}}

GeomRanges == {<<Q(1, 1000), F32_MAX>>, <<I(0), I(3)>>, <<I(1), I(2)>>}

SceneOf(fs) == [i \in DOMAIN fs |-> Objects(fs[i], i)]

Init ==
    /\ pc = "build"
    /\ prims \in {fs \in FigureLists : NonOverlapping(fs)}
    /\ bvh = None
    /\ ray = NoRay
    /\ range = NoRange
    /\ abox = NoBox
    /\ bbox2 = NoBox
    /\ out = NoOut
    /\ arg = NoArg
    /\ ColorIdle

Build ==
    /\ pc = "build"
    /\ \E node \in BvhNode_new(prims) : bvh' = Some(node)
    /\ out' = [op |-> "build",
               boxes |-> [i \in DOMAIN prims |-> Figures_bounding_box(prims[i])]]
    /\ pc' = "trace"
    /\ UNCHANGED <<abox, bbox2, ray, range, prims, arg>>
    /\ UNCHANGED colorVars

Trace ==
    /\ pc = "trace"
    /\ \E r \in GeomRays, rg \in GeomRanges :
        /\ ray' = r
        /\ range' = rg
        /\ out' = [op |-> "trace",
                   boxes |-> out.boxes,
                   hits |-> [i \in DOMAIN prims |-> Figures_hit(prims[i], r, rg[1], rg[2], NoDraws).rec],
                   bvh |-> Figures_hit(unwrap(bvh), r, rg[1], rg[2], NoDraws).rec,
                   group |-> Figures_hit(figures_group(prims), r, rg[1], rg[2], NoDraws).rec,
                   scene |-> Scene_hit(SceneOf(prims), r, rg[1], rg[2], NoDraws).rec]
    /\ pc' = "done"
    /\ UNCHANGED <<abox, bbox2, prims, bvh, arg>>
    /\ UNCHANGED colorVars

Next == Build \/ Trace

Spec == Init /\ [][Next]_vars

----------------------------------------------------------------------------
(* Claims about the primitive tree                                         *)

\* C1: for a list of primitives with pairwise non-overlapping boxes, the BVH
\* built over it returns the same closest intersection (same t, or none) as
\* the linear nearest-hit scan over the same list.
C1_BvhEqualsScan ==
    (pc = "done") =>
        /\ (out.bvh = None) <=> (out.group = None)
        /\ (out.bvh # None /\ out.group # None) => unwrap(out.bvh).at = unwrap(out.group).at

\* the hits of the children over the whole range
ChildHits == {unwrap(out.hits[i]) : i \in {j \in DOMAIN prims : out.hits[j] # None}}

\* C2: the linear scans return none iff no child is hit within the range, and
\* otherwise a record whose t is the minimum over the children's hits; the
\* object Scene::hit returns is the one that produced the record.
C2_ScanNearest ==
    (pc = "done") =>
        /\ (out.group = None) <=> (ChildHits = {})
        /\ (out.group # None) =>
            /\ unwrap(out.group) \in ChildHits
            /\ \A h \in ChildHits : FLe(unwrap(out.group).at, h.at)
        /\ (out.scene = None) <=> (ChildHits = {})
        /\ (out.scene # None) =>
            /\ unwrap(out.scene)[1] = unwrap(out.hits[unwrap(out.scene)[2]])
            /\ \A h \in ChildHits : FLe(unwrap(out.scene)[1].at, h.at)

TranslateIdx == {i \in DOMAIN prims : prims[i].tag = "Translate"}

\* C6: Translate(offset, P).hit(ray) is none iff P.hit(ray moved by -offset)
\* is none, and when both hit they have the same t and normal and the
\* Translate point is the child's point plus offset.
C6_TranslateHit ==
    (pc = "done") =>
        \A i \in TranslateIdx :
            LET f == prims[i]
                h == out.hits[i]
                c == Figures_hit(f.figure, RayV3(V3_sub(ray.origin, f.offset), ray.direction),
                                 range[1], range[2], NoDraws).rec
            IN  /\ (h = None) <=> (c = None)
                /\ (h # None) =>
                    /\ unwrap(h).at = unwrap(c).at
                    /\ unwrap(h).normal = unwrap(c).normal
                    /\ unwrap(h).point = V3_add(unwrap(c).point, f.offset)

C6_Witness ==
    /\ pc = "done"
    /\ \E i \in TranslateIdx :
        /\ out.hits[i] # None
        /\ IsFinite(unwrap(out.hits[i]).at)
        /\ prims[i].offset # V3I(0, 0, 0)
        /\ unwrap(out.hits[i]).point = extend_at(ray, unwrap(out.hits[i]).at)

ShiftBox(b, offset) == Aabb(V3_add(b.min, offset), V3_add(b.max, offset))

\* C7: Translate(offset, child).bounding_box is the child's box shifted by
\* offset.
C7_TranslateBox ==
    (pc \in {"trace", "done"}) =>
        \A i \in TranslateIdx :
            out.boxes[i] =
                Some(ShiftBox(unwrap(Figures_bounding_box(prims[i].figure)), prims[i].offset))

----------------------------------------------------------------------------
(* materials.rs: textures, the three materials and their ScatterRecord     *)

solid(color) == [tag |-> "Solid", color |-> color]
Textures_value(t, u, v, point) == t.color

lambertian(albedo) == [tag |-> "Lambertian", albedo |-> albedo]
metal(albedo, fuzz) ==
    [tag |-> "Metal", albedo |-> albedo, fuzz |-> IF FLt(fuzz, I(1)) THEN fuzz ELSE I(1)]
dielectric(ref_idx) == [tag |-> "Dielectric", ref_idx |-> ref_idx]

ScatterRecord(attenuation, scattered, is_scattered) ==
    [attenuation |-> attenuation, scattered |-> scattered, is_scattered |-> is_scattered]

\* let target = rec.point + rec.normal + V3::new_in_unit_sphere()
Lambertian_scatter_target(m, rec, target) ==
    ScatterRecord(Textures_value(m.albedo, I(0), I(0), rec.point),
                  RayV3(rec.point, V3_sub(target, rec.point)), TRUE)

\* p is the point V3::new_in_unit_sphere() returns
Lambertian_scatter(m, ray_in, rec, p) ==
    Lambertian_scatter_target(m, rec, V3_add(V3_add(rec.point, rec.normal), p))

\* mutant: the normal component is removed once, not twice
Metal_reflect_projected(v, n) == V3_sub(v, V3_scale(n, V3_dot(v, n)))

Metal_reflect(v, n) == V3_sub(v, V3_scale(n, FMul(I(2), V3_dot(v, n))))

\* let ray = Ray {..}; let is_scattered = ray.direction.dot(rec.normal) > 0.0
Metal_scatter_ray(m, rec, direction) ==
    ScatterRecord(m.albedo, RayV3(rec.point, direction),
                  FGt(V3_dot(direction, rec.normal), I(0)))

\* p is the point V3::new_in_unit_sphere() returns
Metal_scatter(m, ray_in, rec, p) ==
    Metal_scatter_ray(m, rec,
        V3_add(Metal_reflect(V3_normalize(ray_in.direction), rec.normal), V3_scale(p, m.fuzz)))

\* f32::powi, by squaring: r takes the factor a at every odd b
RECURSIVE f32_powi_loop(_, _, _)
f32_powi_loop(a, b, r) ==
    IF b \div 2 = 0 THEN (IF b % 2 = 1 THEN FMul(r, a) ELSE r)
    ELSE f32_powi_loop(FMul(a, a), b \div 2, IF b % 2 = 1 THEN FMul(r, a) ELSE r)

f32_powi(x, n) == f32_powi_loop(x, n, I(1))

Dielectric_reflect(v, n) == V3_sub(v, V3_scale(n, FMul(I(2), V3_dot(v, n))))

\* if discriminant > 0.0 { Some(..) } else { None }
Dielectric_refract_disc(uv, n, ni_over_nt, dt, discriminant) ==
    IF FGt(discriminant, I(0))
    THEN Some(V3_sub(V3_scale(V3_sub(uv, V3_scale(n, dt)), ni_over_nt),
                     V3_scale(n, FSqrt(discriminant))))
    ELSE None

Dielectric_refract_dt(uv, n, ni_over_nt, dt) ==
    Dielectric_refract_disc(uv, n, ni_over_nt, dt,
        FSub(I(1), FMul(FMul(ni_over_nt, ni_over_nt), FSub(I(1), FMul(dt, dt)))))

Dielectric_refract_uv(uv, n, ni_over_nt) ==
    Dielectric_refract_dt(uv, n, ni_over_nt, V3_dot(uv, n))

Dielectric_refract(v, n, ni_over_nt) == Dielectric_refract_uv(V3_normalize(v), n, ni_over_nt)

Dielectric_schlick_r0(r0, cosine) ==
    FAdd(FMul(r0, r0), FMul(FSub(I(1), FMul(r0, r0)), f32_powi(FSub(I(1), cosine), 5)))

\* mutant: the fifth power of the cosine itself, not of 1 - cosine
Dielectric_schlick_cosinePower(m, cosine) ==
    LET r0 == FDiv(FSub(I(1), m.ref_idx), FAdd(I(1), m.ref_idx))
    IN  FAdd(FMul(r0, r0), FMul(FSub(I(1), FMul(r0, r0)), f32_powi(cosine, 5)))

Dielectric_schlick(m, cosine) ==
    Dielectric_schlick_r0(FDiv(FSub(I(1), m.ref_idx), FAdd(I(1), m.ref_idx)), cosine)

Dielectric_scatter_record(rec, direction) ==
    ScatterRecord(V3I(1, 1, 1), RayV3(rec.point, direction), TRUE)

\* mutant: the reflected direction is chosen when the draw is not below the
\* reflectance
Dielectric_scatter_choice_inverted(m, rec, u, reflected, refracted, cosine) ==
    IF refracted # None
    THEN Dielectric_scatter_record(rec,
            IF FLt(u, Dielectric_schlick(m, cosine)) THEN unwrap(refracted) ELSE reflected)
    ELSE Dielectric_scatter_record(rec, reflected)

\* if let Some(refracted) = .. { reflected or refracted } else { reflected };
\* u is the value rand::random::<f32>() returns
Dielectric_scatter_choice(m, rec, u, reflected, refracted, cosine) ==
    IF refracted # None
    THEN Dielectric_scatter_record(rec,
            IF FLt(u, Dielectric_schlick(m, cosine)) THEN reflected ELSE unwrap(refracted))
    ELSE Dielectric_scatter_record(rec, reflected)

\* (outward_normal, ni_over_nt, cosine), by the sign of direction . normal
Dielectric_scatter_side(m, ray_in, rec, u, reflected, d, norm) ==
    IF FGt(d, I(0))
    THEN Dielectric_scatter_choice(m, rec, u, reflected,
            Dielectric_refract(ray_in.direction, V3_neg(rec.normal), m.ref_idx),
            FDiv(FMul(m.ref_idx, d), norm))
    ELSE Dielectric_scatter_choice(m, rec, u, reflected,
            Dielectric_refract(ray_in.direction, rec.normal, FDiv(I(1), m.ref_idx)),
            FDiv(FNeg(d), norm))

Dielectric_scatter(m, ray_in, rec, u) ==
    Dielectric_scatter_side(m, ray_in, rec, u,
        Dielectric_reflect(ray_in.direction, rec.normal),
        V3_dot(ray_in.direction, rec.normal),
        V3_norm(ray_in.direction))

\* Materials::scatter: p is the point V3::new_in_unit_sphere() returns in
\* Lambertian::scatter and Metal::scatter, u the value rand::random::<f32>()
\* returns in Dielectric::scatter
Materials_scatter(m, ray_in, rec, p, u) ==
    CASE m.tag = "Lambertian" -> Lambertian_scatter(m, ray_in, rec, p)
      [] m.tag = "Metal" -> Metal_scatter(m, ray_in, rec, p)
      [] m.tag = "Dielectric" -> Dielectric_scatter(m, ray_in, rec, u)

----------------------------------------------------------------------------
(* The materials Scene::color calls: main.rs reads specular_ray and pdf of *)
(* the record, and calls emitted and scattering_pdf and                    *)
(* Materials::diffuse_light, none of which materials.rs holds. They follow *)
(* section 4.3 of the specification, on the rays of materials.rs.          *)

diffuse_light(emit) == [tag |-> "DiffuseLight", emit |-> emit]

CosinePdf(w) == [tag |-> "CosinePdf", w |-> V3_normalize(w)]

\* ScatterRecord = {attenuation, specular_ray, pdf, is_scattered}
PdfScatterRecord(attenuation, specular_ray, pdf, is_scattered) ==
    [attenuation |-> attenuation, specular_ray |-> specular_ray, pdf |-> pdf,
     is_scattered |-> is_scattered]

\* Lambertian: always scatters, a CosinePdf built from the normal, no
\* specular ray
Lambertian_scatter_pdf(m, ray_in, rec) ==
    PdfScatterRecord(Textures_value(m.albedo, rec.u, rec.v, rec.point), None,
                     Some(CosinePdf(rec.normal)), TRUE)

\* mutant: the perturbed reflection is not handed back as the specular ray
Metal_scatter_specular_noRay(r) ==
    PdfScatterRecord(r.attenuation, None, None, r.is_scattered)

\* Metal: the ray of Metal::scatter as the specular ray, accepted as there
Metal_scatter_specular(r) ==
    PdfScatterRecord(r.attenuation, Some(r.scattered), None, r.is_scattered)

\* Dielectric: always a specular ray, the ray of Dielectric::scatter
Dielectric_scatter_specular(r) ==
    PdfScatterRecord(r.attenuation, Some(r.scattered), None, r.is_scattered)

\* DiffuseLight: never scatters.  Exactly one of specular_ray / pdf is
\* populated, as for every kind; which of the two, and with what, is not
\* told, and Scene::color reads neither of a record that is not scattered:
\* the records it can be
DiffuseLight_scatter(m, ray_in, rec) ==
    {PdfScatterRecord(V3I(0, 0, 0), Some(ray_in), None, FALSE),
     PdfScatterRecord(V3I(0, 0, 0), None, Some(CosinePdf(rec.normal)), FALSE)}

\* the records object.material.scatter(&ray, &rec) of main.rs:100 can return
Materials_scatter_pdf(m, ray_in, rec, p, u) ==
    CASE m.tag = "Lambertian" -> {Lambertian_scatter_pdf(m, ray_in, rec)}
      [] m.tag = "Metal" -> {Metal_scatter_specular(Metal_scatter(m, ray_in, rec, p))}
      [] m.tag = "Dielectric" ->
            {Dielectric_scatter_specular(Dielectric_scatter(m, ray_in, rec, u))}
      [] m.tag = "DiffuseLight" -> DiffuseLight_scatter(m, ray_in, rec)

Materials_emitted(m, u, v, point) ==
    IF m.tag = "DiffuseLight" THEN Textures_value(m.emit, u, v, point) ELSE V3I(0, 0, 0)

\* max(0, cos)/pi
Lambertian_scattering_pdf_of(cosine) ==
    IF FLt(cosine, I(0)) THEN PZero ELSE FDiv(cosine, PI)

Lambertian_scattering_pdf(m, ray_in, rec, scattered) ==
    Lambertian_scattering_pdf_of(V3_dot(rec.normal, V3_normalize(scattered.direction)))

Materials_scattering_pdf(m, ray_in, rec, scattered) ==
    IF m.tag = "Lambertian" THEN Lambertian_scattering_pdf(m, ray_in, rec, scattered) ELSE PZero

----------------------------------------------------------------------------
(* pdf.rs                                                                  *)

CosinePdf_value_of(cosine) ==
    IF FGt(cosine, I(0)) THEN FDiv(cosine, PI) ELSE PZero

\* direction.normalize().dot(self.uvw.w())
CosinePdf_value(p, direction) == CosinePdf_value_of(V3_dot(V3_normalize(direction), p.w))

\* self.uvw.local(&Onb::random_cosine_direction()) for the draw r2 = 0, whose
\* direction is the local Z axis
CosinePdf_generate(p) == p.w

\* self.figure.random(self.origin): the direction from origin to the point
\* drawn on the figure
HitPdf_generate(origin, point) == V3_sub(point, origin)

\* self.figure.pdf_value(self.origin, *direction): the density the figure
\* reports for the direction
HitPdf_value(light_pdf) == light_pdf

MixPdf_value(v0, v1) == FAdd(FMul(Q(1, 2), v0), FMul(Q(1, 2), v1))

\* u is the value rand::random::<f32>() returns
MixPdf_generate(u, g0, g1) == IF FLt(u, Q(1, 2)) THEN g0 ELSE g1

----------------------------------------------------------------------------
(* main.rs: Color, Camera, create_cornell_box and main                     *)

\* the depth at which Scene::color stops recursing
MaxDepth == 50

\* the lower end of the hit range in Scene::color
T_MIN == Q(1, 1000)

\* let w = 400; let h = 250; let ns = 100 of main
width == 400
height == 250
ns == 100

Color_from_f32(r, g, b) ==
    <<f32_as_u8(FMul(f32_min(r, I(1)), Q(25599, 100))),
      f32_as_u8(FMul(f32_min(g, I(1)), Q(25599, 100))),
      f32_as_u8(FMul(f32_min(b, I(1)), Q(25599, 100)))>>

Color_from_v3(v) == Color_from_f32(v[1], v[2], v[3])

\* f32::tan at half the field of view of main's camera, 20 degrees
f32_tan(x) ==
    CASE IsZero(x) -> x
      [] x = <<1, 11712707, -25>> -> <<1, 12212815, -25>>

Camera_new_uvw(lookfrom, half_height, half_width, lens_radius, focus_dist, u, v, w) ==
    [origin |-> lookfrom,
     lower_left_corner |->
        V3_sub(V3_sub(V3_sub(lookfrom, V3_scale(u, FMul(half_width, focus_dist))),
                      V3_scale(v, FMul(half_height, focus_dist))),
               V3_scale(w, focus_dist)),
     horizontal |-> V3_scale(u, FMul(FMul(I(2), half_width), focus_dist)),
     vertical |-> V3_scale(v, FMul(FMul(I(2), half_height), focus_dist)),
     lens_radius |-> lens_radius,
     camera_pose |-> <<u, v, w>>]

\* let v = w.cross(u)
Camera_new_u(lookfrom, half_height, half_width, lens_radius, focus_dist, u, w) ==
    Camera_new_uvw(lookfrom, half_height, half_width, lens_radius, focus_dist,
                   u, V3_cross(w, u), w)

\* let u = vup.cross(w).normalize()
Camera_new_w(lookfrom, vup, half_height, half_width, lens_radius, focus_dist, w) ==
    Camera_new_u(lookfrom, half_height, half_width, lens_radius, focus_dist,
                 V3_normalize(V3_cross(vup, w)), w)

\* let half_width = aspect * half_height; let w = (lookfrom - lookat).normalize()
Camera_new_half_height(lookfrom, lookat, vup, aspect, lens_radius, focus_dist, half_height) ==
    Camera_new_w(lookfrom, vup, half_height, FMul(aspect, half_height), lens_radius,
                 focus_dist, V3_normalize(V3_sub(lookfrom, lookat)))

\* lens_radius = apertune / 2.0; theta = vfov * PI / 180.0;
\* half_height = (theta / 2.0).tan()
Camera_new(lookfrom, lookat, vup, vfov, aspect, apertune, focus_dist) ==
    Camera_new_half_height(lookfrom, lookat, vup, aspect, FDiv(apertune, I(2)), focus_dist,
        f32_tan(FDiv(FDiv(FMul(vfov, PI), I(180)), I(2))))

Camera_get_ray_offset(cam, u, v, offset) ==
    RayV3(V3_add(cam.origin, offset),
          V3_sub(V3_sub(V3_add(V3_add(cam.lower_left_corner, V3_scale(cam.horizontal, u)),
                               V3_scale(cam.vertical, v)),
                        cam.origin),
                 offset))

\* let offset = self.camera_pose.0.scale(rd.x()) + self.camera_pose.1.scale(rd.y())
Camera_get_ray_rd(cam, u, v, rd) ==
    Camera_get_ray_offset(cam, u, v,
        V3_add(V3_scale(cam.camera_pose[1], rd[1]), V3_scale(cam.camera_pose[2], rd[2])))

\* Camera::get_ray: draws holds the values rand::random returns in
\* V3::new_in_unit_disk
Camera_get_ray(cam, u, v, draws) ==
    Camera_get_ray_rd(cam, u, v, V3_scale(V3_new_in_unit_disk(draws), cam.lens_radius))

create_cornell_box ==
    <<Objects(flip_normals(yz_rect(I(0), I(555), I(0), I(555), I(555))),
              lambertian(solid(V3(Q(12, 100), Q(45, 100), Q(15, 100))))),
      Objects(yz_rect(I(0), I(555), I(0), I(555), I(0)),
              lambertian(solid(V3(Q(65, 100), Q(5, 100), Q(5, 100))))),
      Objects(xz_rect(I(213), I(343), I(227), I(332), I(554)),
              diffuse_light(solid(V3I(15, 15, 15)))),
      Objects(flip_normals(xz_rect(I(0), I(555), I(0), I(555), I(555))),
              lambertian(solid(V3(Q(73, 100), Q(73, 100), Q(73, 100))))),
      Objects(xz_rect(I(0), I(555), I(0), I(555), I(0)),
              lambertian(solid(V3(Q(73, 100), Q(73, 100), Q(73, 100))))),
      Objects(flip_normals(xy_rect(I(0), I(555), I(0), I(555), I(555))),
              lambertian(solid(V3(Q(73, 100), Q(73, 100), Q(73, 100))))),
      Objects(sphere(V3I(190, 90, 190), I(90)), dielectric(Q(3, 2))),
      Objects(translate(V3I(265, 0, 295),
                        rotate_y(I(15), cuboid(V3I(0, 0, 0), V3I(165, 330, 165)))),
              lambertian(solid(V3(Q(73, 100), Q(73, 100), Q(73, 100)))))>>

\* main: the camera and the scene of the closure
camera ==
    Camera_new(V3I(278, 278, -800), V3I(238, 278, 0), V3I(0, 1, 0), I(40),
               FDiv(I(width), I(height)), I(0), I(10))

scene == create_cornell_box

\* the figures main hands to Scene::color as light_shape
light_shape == xz_rect(I(213), I(343), I(227), I(332), I(554))
grass_sphere == sphere(V3I(190, 90, 190), I(90))

----------------------------------------------------------------------------
(* The random draws of one sample                                          *)

\* the values rand::random returns for the jitter of u and of v
JitterDraws == {PZero, Q(1, 2)}

\* the values rand::random returns in V3::new_in_unit_disk, two a round: the
\* centre of the disk at once, and after a round whose point is rejected
DiskDraws == {<<Q(1, 2), Q(1, 2)>>, <<Q(9, 10), Q(1, 10), Q(1, 2), Q(1, 2)>>}

\* the values rand::random returns in V3::new_in_unit_sphere, three a round
UnitSphereDraws == {<<Q(1, 2), Q(1, 2), Q(1, 2)>>, <<Q(3, 4), Q(1, 2), Q(1, 2)>>}

\* the values rand::random returns in Dielectric::scatter
DielectricDraws == {PZero, Q(1, 100)}

\* the point light_shape.random draws, on the light
LightPoint == V3I(214, 554, 331)

\* the draws of one diffuse bounce: the coin of MixPdf::generate, the point
\* drawn on the light and the density light_shape.pdf_value reports for the
\* direction generated: 0 or 1/pi for the direction towards the point drawn
\* on the light, 0 for the direction of the cosine pdf
DiffuseDraws ==
    {[u |-> Q(1, 4), point |-> LightPoint, light_pdf |-> PZero],
     [u |-> Q(1, 4), point |-> LightPoint, light_pdf |-> FDiv(I(1), PI)],
     [u |-> Q(1, 2), point |-> LightPoint, light_pdf |-> PZero]}

----------------------------------------------------------------------------
(* SpecColor: main's closure renders one pixel (i, j): ns samples, each a  *)
(* call of Scene::color(ray, light_shape, 0), summed, averaged and         *)
(* quantised. Scene::color runs as a call stack: one step per invocation   *)
(* up to its recursive call or its return, one step per return into the    *)
(* caller.                                                                 *)

\* the pixels rendered: one that looks past the box, one on the light, one
\* on the sphere and one on the front face of the cuboid
Pixels ==
    {[op |-> "pixel", i |-> 0, j |-> 0],
     [op |-> "pixel", i |-> 182, j |-> 37],
     [op |-> "pixel", i |-> 213, j |-> 189],
     [op |-> "pixel", i |-> 162, j |-> 161]}

\* if t.is_nan() { 0.0 } else { t }, on every channel
de_nan(c) == [i \in 1 .. 3 |-> IF IsNaN(c[i]) THEN PZero ELSE c[i]]

\* mutant: the cutoff lets depth 50 recurse
Color_recurses_offByOne(dpt, scatter_rec) == dpt <= MaxDepth /\ scatter_rec.is_scattered

\* if depth < 50 && scatter_rec.is_scattered
Color_recurses(dpt, scatter_rec) == dpt < MaxDepth /\ scatter_rec.is_scattered

\* scatter_rec.attenuation * self.color(specular_ray, ..)
Color_specular(attenuation, c) == V3_mul(attenuation, c)

\* emitted + (attenuation.scale(scattering_pdf) * self.color(scattered, ..)).scale(1.0 / pdf_val)
Color_diffuse(emitted, attenuation, scattering_pdf, c, pdf_val) ==
    V3_add(emitted, V3_scale(V3_mul(V3_scale(attenuation, scattering_pdf), c),
                             FDiv(I(1), pdf_val)))

Frame(specular, emitted, attenuation, scattering_pdf, pdf_val) ==
    [specular |-> specular, emitted |-> emitted, attenuation |-> attenuation,
     scattering_pdf |-> scattering_pdf, pdf_val |-> pdf_val, depth |-> depth]

Info(hit, is_scattered, emitted, calls) ==
    [hit |-> hit, depth |-> depth, is_scattered |-> is_scattered, emitted |-> emitted,
     calls |-> calls]

InitPixel(pixels) ==
    /\ pc = "sample"
    /\ abox = NoBox
    /\ bbox2 = NoBox
    /\ ray = NoRay
    /\ range = NoRange
    /\ prims = <<>>
    /\ bvh = None
    /\ out = NoOut
    /\ arg \in pixels
    /\ ColorIdle

InitColor == InitPixel(Pixels)

\* the closure of one sample: u and v of the pixel with their jitter, the ray
\* of camera.get_ray(u, v), then the call
StartSample ==
    /\ pc = "sample"
    /\ \E ru \in JitterDraws, rv \in JitterDraws, dd \in DiskDraws :
            ray' = Camera_get_ray(camera,
                        FDiv(FAdd(I(arg.i), ru), I(width)),
                        FDiv(FAdd(I(height - 1 - arg.j), rv), I(height)),
                        dd)
    /\ depth' = 0
    /\ stack' = <<>>
    /\ pc' = "call"
    /\ UNCHANGED <<ret, info, sum, nsamp, pixel>>
    /\ UNCHANGED geomVars

\* None => V3(0.0, 0.0, 0.0)
ColorNone ==
    /\ ret' = V3I(0, 0, 0)
    /\ info' = Info(FALSE, FALSE, V3I(0, 0, 0), 0)
    /\ pc' = "return"
    /\ UNCHANGED <<ray, depth, stack>>

\* mutant: the else branch returns black
ColorEmitted_black(scatter_rec, emitted) ==
    /\ ret' = V3I(0, 0, 0)
    /\ info' = Info(TRUE, scatter_rec.is_scattered, emitted, 0)
    /\ pc' = "return"
    /\ UNCHANGED <<ray, depth, stack>>

\* else { emitted }
ColorEmitted(scatter_rec, emitted) ==
    /\ ret' = emitted
    /\ info' = Info(TRUE, scatter_rec.is_scattered, emitted, 0)
    /\ pc' = "return"
    /\ UNCHANGED <<ray, depth, stack>>

\* Some(specular_ray) => the recursive call on it
ColorSpecular(scatter_rec, emitted) ==
    /\ stack' = Append(stack, Frame(TRUE, emitted, scatter_rec.attenuation, PZero, PZero))
    /\ ray' = unwrap(scatter_rec.specular_ray)
    /\ depth' = depth + 1
    /\ pc' = "call"
    /\ UNCHANGED <<ret, info>>

\* the recursive call on the ray drawn from the mixture pdf
ColorDiffuseRay(rec, object, scatter_rec, emitted, d, scattered) ==
    /\ stack' = Append(stack,
            Frame(FALSE, emitted, scatter_rec.attenuation,
                  Materials_scattering_pdf(object.material, ray, rec, scattered),
                  MixPdf_value(HitPdf_value(d.light_pdf),
                               CosinePdf_value(unwrap(scatter_rec.pdf), scattered.direction))))
    /\ ray' = scattered
    /\ depth' = depth + 1
    /\ pc' = "call"
    /\ UNCHANGED <<ret, info>>

\* None => the mixture of the light's pdf and the material's pdf
ColorDiffuse(rec, object, scatter_rec, emitted) ==
    \E d \in DiffuseDraws :
        ColorDiffuseRay(rec, object, scatter_rec, emitted, d,
            RayV3(rec.point,
                MixPdf_generate(d.u, HitPdf_generate(rec.point, d.point),
                                CosinePdf_generate(unwrap(scatter_rec.pdf)))))

ColorScattered(rec, object, scatter_rec, emitted) ==
    IF Color_recurses(depth, scatter_rec)
    THEN IF scatter_rec.specular_ray # None
         THEN ColorSpecular(scatter_rec, emitted)
         ELSE ColorDiffuse(rec, object, scatter_rec, emitted)
    ELSE ColorEmitted(scatter_rec, emitted)

\* Some((rec, object)) => scatter and emitted, on the draws scatter takes
ColorSome(rec, object) ==
    \E sd \in UnitSphereDraws, u \in DielectricDraws :
        \E scatter_rec \in Materials_scatter_pdf(object.material, ray, rec,
                                                 V3_new_in_unit_sphere(sd), u) :
            ColorScattered(rec, object, scatter_rec,
                           Materials_emitted(object.material, rec.u, rec.v, rec.point))

ColorMatch(h) ==
    IF h = None THEN ColorNone
    ELSE ColorSome(unwrap(h)[1], scene[unwrap(h)[2]])

\* one invocation of Scene::color, up to its recursive call or its return
ColorCall ==
    /\ pc = "call"
    /\ ColorMatch(Scene_hit(scene, ray, T_MIN, F32_MAX, NoDraws).rec)
    /\ UNCHANGED <<sum, nsamp, pixel>>
    /\ UNCHANGED geomVars

\* the recursive call returns into the invocation on top of the stack
ColorReturn ==
    /\ pc = "return"
    /\ stack # <<>>
    /\ ret' = IF stack[Len(stack)].specular
              THEN Color_specular(stack[Len(stack)].attenuation, ret)
              ELSE Color_diffuse(stack[Len(stack)].emitted, stack[Len(stack)].attenuation,
                                 stack[Len(stack)].scattering_pdf, ret,
                                 stack[Len(stack)].pdf_val)
    /\ info' = [hit |-> TRUE, depth |-> stack[Len(stack)].depth, is_scattered |-> TRUE,
                emitted |-> stack[Len(stack)].emitted, calls |-> 1]
    /\ depth' = stack[Len(stack)].depth
    /\ stack' = SubSeq(stack, 1, Len(stack) - 1)
    /\ UNCHANGED <<pc, ray, sum, nsamp, pixel>>
    /\ UNCHANGED geomVars

\* .sum::<V3>(): the sample is added to the running sum as it is returned
Accumulate ==
    /\ pc = "return"
    /\ stack = <<>>
    /\ sum' = V3_add(sum, ret)
    /\ nsamp' = nsamp + 1
    /\ pc' = IF nsamp + 1 < ns THEN "sample" ELSE "pixel"
    /\ ray' = NoRay
    /\ ret' = V3I(0, 0, 0)
    /\ info' = NoInfo
    /\ UNCHANGED <<depth, stack, pixel>>
    /\ UNCHANGED geomVars

\* .scale(1.0 / ns as f32).map(&|x| x.sqrt()), then Color::from_v3
WritePixel ==
    /\ pc = "pixel"
    /\ pixel' = Color_from_v3(V3_map_sqrt(V3_scale(sum, FDiv(I(1), I(ns)))))
    /\ pc' = "finished"
    /\ UNCHANGED <<ray, depth, stack, ret, info, sum, nsamp>>
    /\ UNCHANGED geomVars

NextColor == StartSample \/ ColorCall \/ ColorReturn \/ Accumulate \/ WritePixel

SpecColor == InitColor /\ [][NextColor]_vars

----------------------------------------------------------------------------
(* SpecSample: one sample of a pixel: the ray of camera.get_ray and the     *)
(* call Scene::color(ray, light_shape, 0) up to its return                 *)

\* the pixels sampled: one on the floor beside the cuboid, whose diffuse
\* bounces run between floor and ceiling, and the pixels of SpecColor
SamplePixels == {[op |-> "pixel", i |-> 96, j |-> 232]} \cup Pixels

InitSample == InitPixel(SamplePixels)

NextSample == StartSample \/ ColorCall \/ ColorReturn

SpecSample == InitSample /\ [][NextSample]_vars

----------------------------------------------------------------------------
(* Claims about Scene::color and the sample loop                           *)

\* C3: when the ray hits an object and either depth >= 50 or the material
\* reports is_scattered = false, the invocation returns exactly the material's
\* emitted value and makes no recursive call.
C3_EmittedOnly ==
    (pc = "return" /\ info.hit /\ (info.depth >= 50 \/ ~info.is_scattered)) =>
        /\ ret = info.emitted
        /\ info.calls = 0

C3_Witness ==
    /\ pc = "return"
    /\ info.hit
    /\ info.depth = 50
    /\ info.is_scattered
    /\ info.calls = 0
    /\ ret = info.emitted

\* the invocations are nested one per depth 0, 1, 2, .. and none is deeper
\* than 50
C4_Nested ==
    /\ depth <= 50
    /\ Len(stack) <= 50
    /\ pc = "call" => depth = Len(stack)
    /\ \A i \in DOMAIN stack : stack[i].depth = i - 1
    /\ info.calls <= 1

\* a call is made by an invocation that has not called yet, with depth one
\* greater; an invocation its call has returned into makes no other call
C4_OneCall ==
    /\ Len(stack') > Len(stack) =>
        /\ pc = "call"
        /\ Len(stack') = Len(stack) + 1
        /\ depth' = depth + 1
    /\ pc = "return" => Len(stack') <= Len(stack)

\* the steps a call of Scene::color can still take: an invocation about to
\* run can go at most to depth 50 and back, a returning one has its pending
\* callers to return into
C4_Rank ==
    IF pc = "call" THEN 2 * 51 - depth
    ELSE IF pc = "return" THEN Len(stack)
    ELSE 0

C4_Decreases ==
    (pc \in {"call", "return"} /\ pc' \in {"call", "return"}) =>
        (C4_Rank' < C4_Rank /\ C4_Rank' >= 0)

\* C4: every call Scene::color(ray, light_shape, 0) terminates: each
\* invocation makes at most one recursive call, of depth exactly one greater,
\* no invocation has depth above 50 (at most 51 nested invocations), and
\* every step of the call lowers a bounded count of the steps left.
C4_Terminates ==
    /\ []C4_Nested
    /\ [][C4_OneCall /\ C4_Decreases]_vars

C4_Witness ==
    /\ pc = "call"
    /\ depth = 50
    /\ Len(stack) = 50
    /\ \E i \in DOMAIN stack : ~stack[i].specular

\* C5: every sample is accumulated with its NaN and infinite channels
\* replaced by 0, so the sum of the samples, and the averaged pixel, is finite
\* in every channel.
C5_Sanitised ==
    \A i \in 1 .. 3 :
        /\ IsFinite(sum[i])
        /\ IsFinite(V3_scale(sum, FDiv(I(1), I(ns)))[i])

----------------------------------------------------------------------------
(* SpecFig: Figures::hit and Figures::bounding_box of one figure, applied  *)
(* to a drawn ray and range.                                               *)

FigSphere == sphere(V3I(1, 1, 1), I(1))
FigRect == xy_rect(I(0), I(2), I(0), I(2), I(1))
FigCuboid == cuboid(V3I(0, 0, 0), V3I(2, 2, 2))

\* the densities of the media: ConstantMedium takes any f32
FigDensities == {PZero, NZero, Q(1, 2), Q(-1, 2), I(4), PInf}

FigMedia == {constant_medium(d, b) : d \in FigDensities, b \in {FigSphere, FigCuboid}}

\* figures whose hit calls rand::random more than once: a medium bounded by a
\* medium, and the node BvhNode::new builds from a single medium
FigNested ==
    {constant_medium(Q(1, 2), constant_medium(I(4), FigSphere)),
     bvh_node_of(constant_medium(I(4), FigSphere), constant_medium(I(4), FigSphere))}

\* the most calls to rand::random that one hit of f makes
RECURSIVE MaxDraws(_)
RECURSIVE MaxDrawsOver(_)
MaxDrawsOver(fs) == IF fs = <<>> THEN 0 ELSE MaxDraws(Head(fs)) + MaxDrawsOver(Tail(fs))
MaxDraws(f) ==
    CASE f.tag = "ConstantMedium" -> 2 * MaxDraws(f.boundary) + 1
      [] f.tag \in {"FlipNormals", "Translate", "RotateY", "Cuboid"} -> MaxDraws(f.figure)
      [] f.tag = "BvhNode" -> MaxDraws(f.left) + MaxDraws(f.right)
      [] f.tag = "Figures" -> MaxDrawsOver(f.list)
      [] OTHER -> 0

\* the values rand::random returns to one hit of f, in the order of the calls:
\* every value of Rand01 for a single call, two of them for each of several
FigDraws(f) ==
    IF MaxDraws(f) <= 1 THEN [1 .. MaxDraws(f) -> Rand01]
    ELSE [1 .. MaxDraws(f) -> {Q(1, 3), Q(99, 100)}]

FigSolids ==
    {FigSphere, sphere(V3I(1, 1, 1), I(3)), FigRect, FigCuboid,
     flip_normals(FigRect), flip_normals(flip_normals(FigRect)),
     flip_normals(FigSphere), flip_normals(flip_normals(FigSphere)),
     flip_normals(translate(V3I(1, 0, 0), FigSphere)),
     translate(V3I(1, 0, 0), FigSphere),
     translate(V3I(3, 0, 0), FigRect),
     rotate_y(I(0), FigSphere), rotate_y(I(0), FigRect), rotate_y(I(0), FigCuboid),
     rotate_y(I(0), flip_normals(yz_rect(I(0), I(2), I(0), I(2), I(1)))),
     rotate_y(I(180), FigRect), rotate_y(I(90), FigSphere), rotate_y(I(90), FigRect),
     rotate_y(ObliqueAngle, FigRect), rotate_y(ObliqueAngle, flip_normals(FigRect)),
     rotate_y(ObliqueAngle, FigCuboid),
     figures_group(<<FigRect, FigSphere>>),
     bvh_node_of(FigSphere, FigRect)}

FigPool == FigSolids \cup FigMedia \cup FigNested

FigRays ==
    {RayV3(V3I(1, 1, -1), V3I(0, 0, 1)),
     RayV3(V3I(1, 1, -1), V3I(0, 0, 2)),
     RayV3(V3I(1, 1, 1), V3I(0, 0, 1)),
     RayV3(V3I(1, 1, 3), V3I(0, 0, -1)),
     RayV3(V3I(1, 1, 5), V3I(0, 0, 1)),
     RayV3(V3I(0, 1, -1), V3I(0, 0, 1)),
     RayV3(V3I(4, 1, -1), V3I(0, 0, 1)),
     RayV3(V3(I(1), Q(3, 2), I(-1)), V3I(0, 0, 1)),
     RayV3(V3I(-2, 1, -3), V3I(3, 0, 4)),
     RayV3(V3I(-1, 1, 1), V3(I(1), PZero, NZero)),
     RayV3(V3I(3, 1, 1), V3(I(-1), PZero, PZero))}

\* the ray whose roots on FigSphere are irrational
FigIrrationalRay == RayV3(V3(I(1), Q(3, 2), I(-1)), V3I(0, 0, 1))

FigRanges ==
    {<<Q(1, 1000), F32_MAX>>, <<I(0), I(3)>>, <<I(1), I(2)>>, <<I(1), F32_MAX>>,
     <<I(0), Q(1, 2)>>, <<I(-5), F32_MAX>>}

InitFig ==
    /\ pc = "hit"
    /\ arg \in UNION {{[op |-> "figure", figure |-> f, us |-> us] : us \in FigDraws(f)}
                        : f \in FigPool}
    /\ ray \in FigRays
    /\ range \in FigRanges
    /\ abox = NoBox
    /\ bbox2 = NoBox
    /\ prims = <<>>
    /\ bvh = None
    /\ out = NoOut
    /\ ColorIdle

\* the record of the hit and the number of calls to rand::random it made
HitFigure_out(d) == [op |-> "hit", hit |-> d.rec, draws |-> Len(arg.us) - Len(d.us)]

\* figure.hit(&ray, tmin, tmax)
HitFigure ==
    /\ pc = "hit"
    /\ out' = HitFigure_out(Figures_hit(arg.figure, ray, range[1], range[2], arg.us))
    /\ pc' = "box"
    /\ UNCHANGED <<abox, bbox2, ray, range, prims, bvh, arg>>
    /\ UNCHANGED colorVars

\* figure.bounding_box(0.0, 1.0)
BoxFigure ==
    /\ pc = "box"
    /\ arg.figure.tag # "Figures"
    /\ out' = [op |-> "box", hit |-> out.hit, draws |-> out.draws,
               box |-> Figures_bounding_box(arg.figure)]
    /\ pc' = "done"
    /\ UNCHANGED <<abox, bbox2, ray, range, prims, bvh, arg>>
    /\ UNCHANGED colorVars

NextFig == HitFigure \/ BoxFigure

SpecFig == InitFig /\ [][NextFig]_vars

----------------------------------------------------------------------------
(* Claims about the primitives                                             *)

\* C11: every HitRecord a primitive's hit(ray, tmin, tmax) returns has t
\* strictly inside the open interval, tmin < t < tmax; a rectangle whose plane
\* is met at exactly t = tmin or t = tmax yields no hit.
C11_OpenInterval ==
    (pc \in {"box", "done"} /\ out.hit # None) =>
        /\ FLt(range[1], unwrap(out.hit).at)
        /\ FLt(unwrap(out.hit).at, range[2])

\* |x|
f32_abs(x) == IF IsNaN(x) THEN NaN ELSE <<1, x[2], x[3]>>

\* |a.x| + |a.y| + |a.z|
V3_abs_sum(a) == FAdd(FAdd(f32_abs(a[1]), f32_abs(a[2])), f32_abs(a[3]))

\* a and b differ by rounding only: by at most 1e-5 of the scale, on every axis
NearV3(a, b, scale) ==
    \A i \in Axes : FLe(f32_abs(FSub(a[i], b[i])), FMul(Q(1, 100000), scale))

\* the quadratic of |O + tD - C|^2 = r^2 for the traced sphere
SphereA == V3_dot(ray.direction, ray.direction)
SphereB == V3_dot(V3_sub(ray.origin, arg.figure.center), ray.direction)
SphereC ==
    FSub(V3_dot(V3_sub(ray.origin, arg.figure.center), V3_sub(ray.origin, arg.figure.center)),
         FMul(arg.figure.radius, arg.figure.radius))
SphereDisc == FSub(FMul(SphereB, SphereB), FMul(SphereA, SphereC))
SphereNear == FDiv(FSub(FNeg(SphereB), FSqrt(SphereDisc)), SphereA)
SphereFar == FDiv(FAdd(FNeg(SphereB), FSqrt(SphereDisc)), SphereA)

InRange(t) == FLt(range[1], t) /\ FLt(t, range[2])

\* the root the claim selects: a sequence of length 0 or 1
SphereRoot ==
    IF FLe(SphereDisc, I(0)) THEN <<>>
    ELSE IF InRange(SphereNear) THEN <<SphereNear>>
    ELSE IF InRange(SphereFar) THEN <<SphereFar>>
    ELSE <<>>

\* (point - center) / radius, of the point returned
SphereNormal ==
    [i \in Axes |-> FDiv(FSub(unwrap(out.hit).point[i], arg.figure.center[i]),
                         arg.figure.radius)]

\* C12: Sphere::hit returns none when the discriminant is <= 0; otherwise the
\* near root if it lies in (tmin, tmax), else the far root if it lies in
\* (tmin, tmax), else none; the point is ray.extend_at(t) and the normal is
\* (point - center) / radius, up to the rounding of f32 (exactly for
\* radius 1).
C12_SphereHit ==
    (pc \in {"box", "done"} /\ arg.figure.tag = "Sphere") =>
        /\ (out.hit = None) <=> (SphereRoot = <<>>)
        /\ (out.hit # None) =>
            /\ unwrap(out.hit).at = SphereRoot[1]
            /\ unwrap(out.hit).point = extend_at(ray, SphereRoot[1])
            /\ NearV3(unwrap(out.hit).normal, SphereNormal,
                      FAdd(I(1), V3_abs_sum(SphereNormal)))
            /\ arg.figure.radius = I(1) => unwrap(out.hit).normal = SphereNormal

\* the ray starts inside the sphere: the near root is behind it, the far
\* root is returned
C12_Witness ==
    /\ pc = "done"
    /\ arg.figure.tag = "Sphere"
    /\ out.hit # None
    /\ FGt(SphereDisc, I(0))
    /\ ~InRange(SphereNear)
    /\ unwrap(out.hit).at = SphereFar
    /\ unwrap(out.hit).normal = V3I(0, 0, 1)

\* a sphere of radius 3: the normal, scaled by 1.0 / 3.0, is one rounding away
\* from the quotient by 3.0
C12_RoundedNormalTraced ==
    /\ pc = "done"
    /\ arg.figure.tag = "Sphere"
    /\ out.hit # None
    /\ arg.figure.radius = I(3)
    /\ unwrap(out.hit).normal # SphereNormal

\* equality of f32 values as `==` compares them, with NaN equal to NaN
SameF32(x, y) == x = y \/ (IsZero(x) /\ IsZero(y))
SameV3(a, b) == \A i \in Axes : SameF32(a[i], b[i])

SameHit(h, c) ==
    /\ (h = None) <=> (c = None)
    /\ (h # None) =>
        /\ SameF32(unwrap(h).at, unwrap(c).at)
        /\ SameV3(unwrap(h).point, unwrap(c).point)
        /\ SameV3(unwrap(h).normal, unwrap(c).normal)
        /\ SameF32(unwrap(h).u, unwrap(c).u)
        /\ SameF32(unwrap(h).v, unwrap(c).v)

SameBox(a, b) ==
    /\ (a = None) <=> (b = None)
    /\ (a # None) => (SameV3(unwrap(a).min, unwrap(b).min) /\ SameV3(unwrap(a).max, unwrap(b).max))

\* the hit of the traced figure's child, of the traced ray and range
ChildHit == Figures_hit(arg.figure.figure, ray, range[1], range[2], NoDraws).rec
GrandChildHit == Figures_hit(arg.figure.figure.figure, ray, range[1], range[2], NoDraws).rec

\* C13: FlipNormals(P).hit is none iff P.hit is, and otherwise has P's t,
\* point, u and v with the normal negated; FlipNormals(FlipNormals(P)) returns
\* P's records; FlipNormals does not change the bounding box.
C13_FlipNormals ==
    (pc = "done" /\ arg.figure.tag = "FlipNormals") =>
        /\ (out.hit = None) <=> (ChildHit = None)
        /\ (out.hit # None) =>
            /\ unwrap(out.hit).at = unwrap(ChildHit).at
            /\ unwrap(out.hit).point = unwrap(ChildHit).point
            /\ unwrap(out.hit).u = unwrap(ChildHit).u
            /\ unwrap(out.hit).v = unwrap(ChildHit).v
            /\ \A i \in Axes :
                SameF32(unwrap(out.hit).normal[i], FNeg(unwrap(ChildHit).normal[i]))
        /\ (arg.figure.figure.tag = "FlipNormals") => SameHit(out.hit, GrandChildHit)
        /\ out.box = Figures_bounding_box(arg.figure.figure)

C13_Witness ==
    /\ pc = "done"
    /\ arg.figure.tag = "FlipNormals"
    /\ arg.figure.figure.tag = "FlipNormals"
    /\ arg.figure.figure.figure.tag = "Sphere"
    /\ out.hit # None
    /\ unwrap(out.hit).normal = V3I(0, 0, -1)
    /\ unwrap(ChildHit).normal = V3I(0, 0, 1)

\* the traced figure is RotateY::new(0 degrees, P)
IsRotateY0 == arg.figure.tag = "RotateY" /\ arg.figure = rotate_y(I(0), arg.figure.figure)

\* C14: RotateY(0 degrees, P) behaves as P: its hit returns P's t, point and
\* normal for every ray and range, and its bounding box is P's.
C14_RotateYZero ==
    (pc = "done" /\ IsRotateY0) =>
        /\ SameHit(out.hit, ChildHit)
        /\ SameBox(out.box, Figures_bounding_box(arg.figure.figure))

C14_Witness ==
    /\ pc = "done"
    /\ IsRotateY0
    /\ arg.figure.figure.tag = "Cuboid"
    /\ out.hit # None
    /\ unwrap(out.hit).normal[1] # PZero
    /\ FGt(unwrap(out.hit).point[3], I(0))

\* the boundary's entry hit over the unrestricted range and its exit hit past
\* entry.t + 0.0001, each with the draws it leaves to the calls after it
MediumEntryRun == Figures_hit(arg.figure.boundary, ray, FNeg(F32_MAX), F32_MAX, arg.us)
MediumEntry == MediumEntryRun.rec
MediumExitRun ==
    IF MediumEntry = None THEN MediumEntryRun
    ELSE Figures_hit(arg.figure.boundary, ray,
                     FAdd(unwrap(MediumEntry).at, Q(1, 10000)), F32_MAX, MediumEntryRun.us)
MediumExit == MediumExitRun.rec

\* the entry/exit interval clamped to [tmin, tmax]
ClampedEntry ==
    IF FLt(unwrap(MediumEntry).at, range[1]) THEN range[1] ELSE unwrap(MediumEntry).at
ClampedExit ==
    IF FGt(unwrap(MediumExit).at, range[2]) THEN range[2] ELSE unwrap(MediumExit).at

\* C15: ConstantMedium::hit returns none when the boundary has no entry hit,
\* when there is no exit hit past entry.t + 0.0001, or when the interval
\* clamped to [tmin, tmax] has entry >= exit; a hit it returns has
\* max(entry.t, tmin, 0) <= t < min(exit.t, tmax), point = ray.extend_at(t)
\* and u = v = 0.
C15_MediumHit ==
    (pc \in {"box", "done"} /\ arg.figure.tag = "ConstantMedium") =>
        /\ (MediumEntry = None) => out.hit = None
        /\ (MediumEntry # None /\ MediumExit = None) => out.hit = None
        /\ (MediumEntry # None /\ MediumExit # None /\ FGe(ClampedEntry, ClampedExit))
                => out.hit = None
        /\ (out.hit # None) =>
            /\ FLe(f32_max(ClampedEntry, I(0)), unwrap(out.hit).at)
            /\ FLt(unwrap(out.hit).at, ClampedExit)
            /\ unwrap(out.hit).point = extend_at(ray, unwrap(out.hit).at)
            /\ unwrap(out.hit).u = I(0)
            /\ unwrap(out.hit).v = I(0)

\* with a density of 0 or more the hits of the traced media do lie in the
\* clamped interval
C15_PositiveDensity ==
    (/\ pc \in {"box", "done"}
     /\ arg.figure.tag = "ConstantMedium"
     /\ arg.figure.density[1] = 1
     /\ out.hit # None) =>
        /\ FLe(f32_max(ClampedEntry, I(0)), unwrap(out.hit).at)
        /\ FLt(unwrap(out.hit).at, ClampedExit)

\* the ray starts inside the boundary and tmin is negative: the entry is
\* clamped to tmin and then to 0.0, and the medium is hit past 0
C15_ClampedAtZeroTraced ==
    /\ pc = "done"
    /\ arg.figure.tag = "ConstantMedium"
    /\ arg.figure.density = Q(1, 2)
    /\ MediumEntry # None
    /\ FLt(unwrap(MediumEntry).at, range[1])
    /\ FLt(range[1], I(0))
    /\ out.hit # None
    /\ FGt(unwrap(out.hit).at, I(0))

\* the value rand::random returns to the medium itself, after the calls its
\* boundary made
MediumDraw == Head(MediumExitRun.us)

\* C16: with density 0 (the sampled distance is infinite) ConstantMedium::hit
\* returns none for every ray and every draw; with infinite density (the
\* sampled distance is 0) every ray whose clamped entry/exit interval is not
\* empty is hit at the clamped entry parameter.
C16_DensityExtremes ==
    (pc \in {"box", "done"} /\ arg.figure.tag = "ConstantMedium") =>
        /\ (arg.figure.density = PZero) => out.hit = None
        /\ (/\ arg.figure.density = PInf
            /\ MediumEntry # None
            /\ MediumExit # None
            /\ FLt(ClampedEntry, ClampedExit))
                => /\ out.hit # None
                   /\ SameF32(unwrap(out.hit).at, f32_max(ClampedEntry, I(0)))

\* on the draws above 0 the medium of infinite density is hit at the clamped
\* entry, where the interval clamped at 0.0 as well is not empty
C16_PositiveDraws ==
    (/\ pc \in {"box", "done"}
     /\ arg.figure.tag = "ConstantMedium"
     /\ arg.figure.density = PInf
     /\ MediumEntry # None
     /\ MediumExit # None
     /\ FLt(f32_max(ClampedEntry, I(0)), ClampedExit)
     /\ MediumDraw # PZero) =>
        /\ out.hit # None
        /\ SameF32(unwrap(out.hit).at, f32_max(ClampedEntry, I(0)))

\* each hit of a medium draws anew: the medium bounded by a medium takes
\* three values, two of them in the two hits of its boundary
NestedDrawsTraced ==
    /\ pc = "done"
    /\ arg.figure.tag = "ConstantMedium"
    /\ arg.figure.boundary.tag = "ConstantMedium"
    /\ out.draws = 3
    /\ arg.us[1] # arg.us[2]

----------------------------------------------------------------------------
(* Claims about hit and bounding_box together                              *)

\* C28: a hit point returned by hit lies inside the box bounding_box returns,
\* and Aabb::hit of that box is true for the same ray and range.
C28_BoxKeepsHits ==
    (pc = "done" /\ out.hit # None) =>
        /\ out.box # None
        /\ \A a \in Axes :
            /\ FLe(unwrap(out.box).min[a], unwrap(out.hit).point[a])
            /\ FLe(unwrap(out.hit).point[a], unwrap(out.box).max[a])
        /\ Aabb_hit(unwrap(out.box), ray, range[1], range[2])

RECURSIVE HasTranslate(_)
HasTranslate(f) ==
    \/ f.tag = "Translate"
    \/ f.tag \in {"FlipNormals", "RotateY", "Cuboid"} /\ HasTranslate(f.figure)
    \/ f.tag = "ConstantMedium" /\ HasTranslate(f.boundary)

\* the hit is at a t strictly inside the range and at a point strictly
\* inside the box on the axes along which the box is not flat
StrictHit ==
    /\ FLt(range[1], unwrap(out.hit).at)
    /\ FLt(unwrap(out.hit).at, range[2])
    /\ \A a \in Axes :
        \/ FLt(FSub(unwrap(out.box).max[a], unwrap(out.box).min[a]), Q(1, 1000))
        \/ /\ FLt(unwrap(out.box).min[a], unwrap(out.hit).point[a])
           /\ FLt(unwrap(out.hit).point[a], unwrap(out.box).max[a])

\* without a Translate in the figure, a hit strictly inside the range and
\* the box is kept by the box
C28_StrictKept ==
    (pc = "done" /\ out.hit # None /\ ~HasTranslate(arg.figure) /\ StrictHit) =>
        /\ \A a \in Axes :
            /\ FLe(unwrap(out.box).min[a], unwrap(out.hit).point[a])
            /\ FLe(unwrap(out.hit).point[a], unwrap(out.box).max[a])
        /\ Aabb_hit(unwrap(out.box), ray, range[1], range[2])

\* a hit strictly inside the range on a Translate whose reported box does
\* not contain the hit point
C28_TranslateTraced ==
    /\ pc = "done"
    /\ arg.figure.tag = "Translate"
    /\ out.hit # None
    /\ FLt(range[1], unwrap(out.hit).at)
    /\ FLt(unwrap(out.hit).at, range[2])
    /\ unwrap(out.hit).point = extend_at(ray, unwrap(out.hit).at)
    /\ FGt(unwrap(out.hit).point[1], unwrap(out.box).max[1])
    /\ ~Aabb_hit(unwrap(out.box), ray, range[1], range[2])

----------------------------------------------------------------------------
(* Claims about BvhNode::new                                               *)

\* the orders of 1 .. n
Orders(n) == {q \in [1 .. n -> 1 .. n] : Injective(q)}

\* fs taken in the order q is sorted by the axis' box minimum, elements of
\* equal minimum keeping their order in fs
SortedOrder(fs, q, axis) ==
    \A i, j \in DOMAIN q :
        i < j => \/ FLt(box_min(fs[q[i]], axis), box_min(fs[q[j]], axis))
                 \/ /\ FEq(box_min(fs[q[i]], axis), box_min(fs[q[j]], axis))
                    /\ q[i] < q[j]

RECURSIVE IsBvhOf(_, _)

\* node has the shape the claim gives for the sorted list s
BvhShape(node, s) ==
    IF Len(s) = 1 THEN node.left = s[1] /\ node.right = s[1]
    ELSE IF Len(s) = 2 THEN node.left = s[1] /\ node.right = s[2]
    ELSE /\ Len(s) \div 2 >= 1
         /\ Len(s) \div 2 < Len(s)
         /\ Len(s) - Len(s) \div 2 >= 1
         /\ Len(s) - Len(s) \div 2 < Len(s)
         /\ IsBvhOf(node.left, SubSeq(s, 1, Len(s) \div 2))
         /\ IsBvhOf(node.right, SubSeq(s, Len(s) \div 2 + 1, Len(s)))

IsBvhOf(node, fs) ==
    /\ node.tag = "BvhNode"
    /\ \E axis \in 0 .. 2 : \E q \in Orders(Len(fs)) :
        /\ SortedOrder(fs, q, axis)
        /\ BvhShape(node, [i \in DOMAIN q |-> fs[q[i]]])

\* box is, on every axis, the smaller of the two minima and the larger of
\* the two maxima
IsSurroundOf(box, a, b) ==
    \A i \in Axes :
        /\ box.min[i] \in {a.min[i], b.min[i]}
        /\ FLe(box.min[i], a.min[i]) /\ FLe(box.min[i], b.min[i])
        /\ box.max[i] \in {a.max[i], b.max[i]}
        /\ FGe(box.max[i], a.max[i]) /\ FGe(box.max[i], b.max[i])

BoxWithin(inner, outer) ==
    \A i \in Axes : FLe(outer.min[i], inner.min[i]) /\ FLe(inner.max[i], outer.max[i])

BoxOrdered(box) == \A i \in Axes : FLe(box.min[i], box.max[i])

RECURSIVE BvhLeaves(_)
\* the primitives at the leaves of the subtree of node
BvhLeaves(node) ==
    IF node.tag = "BvhNode" THEN BvhLeaves(node.left) \cup BvhLeaves(node.right)
    ELSE {node}

RECURSIVE BvhBoxesCached(_)
\* the claim at node and at every node below it
BvhBoxesCached(node) ==
    (node.tag = "BvhNode") =>
        /\ IsSurroundOf(node.bbox, unwrap(Figures_bounding_box(node.left)),
                        unwrap(Figures_bounding_box(node.right)))
        /\ \A leaf \in BvhLeaves(node) :
                BoxWithin(unwrap(Figures_bounding_box(leaf)), node.bbox)
        /\ (\A leaf \in BvhLeaves(node) : BoxOrdered(unwrap(Figures_bounding_box(leaf))))
                => BoxOrdered(node.bbox)
        /\ BvhBoxesCached(node.left)
        /\ BvhBoxesCached(node.right)

\* C26: in every tree BvhNode::new builds, each node's cached bbox is the
\* surround of its two children's bounding boxes, contains the bounding box
\* of every leaf primitive below it, and has min <= max on every axis when
\* all those leaf boxes have.
C26_BvhBoxes ==
    (pc = "trace") =>
        /\ bvh # None
        /\ BvhLeaves(unwrap(bvh)) = {prims[i] : i \in DOMAIN prims}
        /\ BvhBoxesCached(unwrap(bvh))

\* a tree of three primitives whose root box is larger than both children's
C26_Witness ==
    /\ pc = "trace"
    /\ Len(prims) = 3
    /\ unwrap(bvh).left.tag = "BvhNode"
    /\ unwrap(bvh).right.tag = "BvhNode"
    /\ unwrap(bvh).bbox # unwrap(bvh).left.bbox
    /\ unwrap(bvh).bbox # unwrap(bvh).right.bbox
    /\ BoxOrdered(unwrap(bvh).bbox)

\* the t of a hit, None for no hit
HitT(h) == IF h = None THEN None ELSE Some(unwrap(h).at)

\* the axis BvhNode::new computes from a draw of rand::random::<f32>()
AxisOf(u) == f32_as_i32(FMul(I(3), u))

\* C27: the axis computed from a random draw is 0, 1 or 2, and every BVH
\* BvhNode::new can build from the same list of primitives with
\* non-overlapping boxes, whatever the axes drawn at its nodes, returns the
\* same closest hit t (or none) for the traced ray and range.
C27_AxisIndependent ==
    /\ \A u \in Rand01 : AxisOf(u) \in 0 .. 2
    /\ (pc = "done") =>
            \A node \in BvhNode_new(prims) :
                HitT(Figures_hit(node, ray, range[1], range[2], NoDraws).rec) = HitT(out.bvh)

\* no primitive is a Translate, and every primitive's hit on the traced ray
\* has a t strictly inside the range and a point strictly inside the
\* primitive's box on the axes along which the box is not flat
RegularHits ==
    \A i \in DOMAIN prims :
        /\ prims[i].tag # "Translate"
        /\ (out.hits[i] # None) =>
            /\ FLt(range[1], unwrap(out.hits[i]).at)
            /\ FLt(unwrap(out.hits[i]).at, range[2])
            /\ \A a \in Axes :
                \/ FLt(FSub(unwrap(out.boxes[i]).max[a], unwrap(out.boxes[i]).min[a]), Q(1, 1000))
                \/ /\ FLt(unwrap(out.boxes[i]).min[a], unwrap(out.hits[i]).point[a])
                   /\ FLt(unwrap(out.hits[i]).point[a], unwrap(out.boxes[i]).max[a])

\* where no primitive meets the ray on its edge, at an end of the range or
\* with t = NaN, and none is a Translate, the trees do agree
C27_RegularAgree ==
    (pc = "done" /\ RegularHits) =>
        \A node \in BvhNode_new(prims) :
            HitT(Figures_hit(node, ray, range[1], range[2], NoDraws).rec) = HitT(out.bvh)

----------------------------------------------------------------------------
(* SpecNew: BvhNode::new as it runs, one step per invocation and one per   *)
(* return into the caller; `stack` holds the invocations waiting for a     *)
(* half, `arg` the list of the running invocation.                         *)

\* the number of nested invocations of BvhNode::new the thread's stack holds;
\* the invocation that exceeds it overflows the stack and the process aborts.
\* The code sets no limit of its own. A Vec holds fewer than 2^63 figures and
\* every nested invocation is given at most half of them, rounded up, so a
\* list of one figure or more is down to n <= 2 before 64 invocations are
\* waiting: only the recursion on the empty list, which never ends, gets
\* this deep.
StackLimit == 64

NewFrame(sorted) == [figures |-> sorted, left |-> None]

NewArg(fs) == [op |-> "new", figures |-> fs]

\* the longest row of spheres handed to BvhNode::new
MaxSpheres == 6

\* n spheres of radius 1 in a row along x, their boxes disjoint
NewSpheres(n) == [i \in 1 .. n |-> sphere(V3I(3 * i, 0, 0), I(1))]

\* 21 spheres of radius 1, one more than sort_by sorts by insertion: one
\* whose centre has x = NaN, one at x = 6 and nineteen at x = 3.  The box
\* minimum along x of the first is NaN, which box_x_compare calls equal to 5
\* and to 2.
NewUnordered ==
    [i \in 1 .. 21 |->
        IF i = 1 THEN sphere(V3(NaN, I(0), I(0)), I(1))
        ELSE IF i = 2 THEN sphere(V3I(6, 0, 0), I(1))
        ELSE sphere(V3I(3, 0, 0), I(1))]

\* the lists BvhNode::new is called with: the empty list, the lists of the
\* primitives, rows of spheres long enough to nest invocations with n >= 3,
\* and the list no comparison along x orders
NewLists ==
    {<<>>} \cup {fs \in FigureLists : NonOverlapping(fs)}
           \cup {NewSpheres(n) : n \in 4 .. MaxSpheres}
           \cup {NewUnordered}

InitNew ==
    /\ pc = "new"
    /\ prims \in NewLists
    /\ arg = NewArg(prims)
    /\ stack = <<>>
    /\ bvh = None
    /\ abox = NoBox
    /\ bbox2 = NoBox
    /\ ray = NoRay
    /\ range = NoRange
    /\ out = NoOut
    /\ depth = 0
    /\ ret = V3I(0, 0, 0)
    /\ info = NoInfo
    /\ sum = V3I(0, 0, 0)
    /\ nsamp = 0
    /\ pixel = NoPixel

\* the branch on n = figures.len() after the sort
NewSorted(sorted) ==
    IF Len(sorted) = 1
    THEN /\ bvh' = Some(bvh_node_of(sorted[1], sorted[1]))
         /\ pc' = "return"
         /\ UNCHANGED <<stack, arg>>
    ELSE IF Len(sorted) = 2
    THEN /\ bvh' = Some(bvh_node_of(sorted[1], sorted[2]))
         /\ pc' = "return"
         /\ UNCHANGED <<stack, arg>>
    ELSE IF Len(stack) < StackLimit
    THEN /\ stack' = Append(stack, NewFrame(sorted))
         /\ arg' = NewArg(SubSeq(sorted, 1, Len(sorted) \div 2))
         /\ pc' = "new"
         /\ UNCHANGED bvh
    ELSE /\ pc' = "overflow"
         /\ UNCHANGED <<stack, arg, bvh>>

\* figures.sort_by(..) panics, or returns and the invocation goes on
NewSortResult(sorted) ==
    IF sorted = None
    THEN /\ pc' = "panic"
         /\ UNCHANGED <<stack, arg, bvh>>
    ELSE NewSorted(unwrap(sorted))

\* one invocation of BvhNode::new, up to its first recursive call, its
\* return or its panic
NewCall ==
    /\ pc = "new"
    /\ \E u \in Rand01 :
        \E sorted \in sort_by(arg.figures, sort_axis(f32_as_i32(FMul(I(3), u)))) :
            NewSortResult(sorted)
    /\ UNCHANGED <<abox, bbox2, ray, range, prims, out>>
    /\ UNCHANGED <<depth, ret, info, sum, nsamp, pixel>>

\* a recursive call returns into the invocation on top of the stack: the
\* first one is followed by the call on the latter half, the second one by
\* the construction of the node
NewReturnInto(top) ==
    IF top.left = None
    THEN /\ stack' = [stack EXCEPT ![Len(stack)].left = bvh]
         /\ arg' = NewArg(SubSeq(top.figures, Len(top.figures) \div 2 + 1, Len(top.figures)))
         /\ bvh' = None
         /\ pc' = "new"
    ELSE /\ stack' = SubSeq(stack, 1, Len(stack) - 1)
         /\ bvh' = Some(bvh_node_of(unwrap(top.left), unwrap(bvh)))
         /\ pc' = "return"
         /\ UNCHANGED arg

NewReturn ==
    /\ pc = "return"
    /\ stack # <<>>
    /\ NewReturnInto(stack[Len(stack)])
    /\ UNCHANGED <<abox, bbox2, ray, range, prims, out>>
    /\ UNCHANGED <<depth, ret, info, sum, nsamp, pixel>>

\* the outermost invocation returns the node
NewDone ==
    /\ pc = "return"
    /\ stack = <<>>
    /\ out' = [op |-> "new", node |-> unwrap(bvh)]
    /\ pc' = "built"
    /\ UNCHANGED <<abox, bbox2, ray, range, prims, bvh, arg>>
    /\ UNCHANGED colorVars

NextNew == NewCall \/ NewReturn \/ NewDone

SpecNew == InitNew /\ [][NextNew]_vars

\* the node the run returns is one of the nodes BvhNode_new gives
NewAgrees == (pc = "built" /\ Len(prims) <= MaxSpheres) => out.node \in BvhNode_new(prims)

\* sort_by panics on the long list with a NaN minimum only
NewPanicsOnUnordered == (pc = "panic") => (prims = NewUnordered /\ stack = <<>>)

\* a list of one figure or more is built, whatever its length: the run on a
\* row of spheres nests two invocations with n >= 3 and returns the node
NewNestedBuilt ==
    /\ pc = "built"
    /\ Len(prims) = MaxSpheres
    /\ out.node.left.tag = "BvhNode"
    /\ out.node.left.left.tag = "BvhNode"

\* the stack overflows on the empty list only
NewOverflowsOnEmpty == (pc = "overflow") => (prims = <<>> /\ Len(stack) = StackLimit)

C17_OrderedShape ==
    (pc = "built" /\ Len(prims) <= MaxSpheres) => IsBvhOf(out.node, prims)

\* three primitives: a one-element node on the left, a pair on the right
C17_ThreeBuilt ==
    /\ pc = "built"
    /\ Len(prims) = 3
    /\ out.node.left.tag = "BvhNode"
    /\ out.node.left.left = out.node.left.right
    /\ out.node.left.left # prims[1]
    /\ out.node.right.tag = "BvhNode"
    /\ out.node.right.left # out.node.right.right

\* C18: BvhNode::new(empty list) fails at once: it stops with an error
\* without recursing on empty sub-lists.
C18_EmptyFailsFast ==
    (prims = <<>>) =>
        /\ stack = <<>>
        /\ pc # "overflow"

----------------------------------------------------------------------------
(* SpecMat: Materials::metal applied to a drawn fuzz, Materials::scatter   *)
(* applied to a drawn material, ray, hit record and random draws, and the  *)
(* scatter Scene::color calls applied to the same                          *)

MatAlbedos == {V3(Q(4, 5), Q(4, 5), Q(9, 10)), V3I(1, 1, 1)}

\* the fuzz values handed to Materials::metal: any f32
MatFuzzes ==
    {NInf, I(-1), Q(-1, 2), NZero, PZero, Q(3, 10), I(1), Q(3, 2), I(10), PInf, NaN}

MatRefIdx == {I(1), Q(3, 2), I(2)}

\* directions of incoming rays with a rational norm
MatDirections ==
    {V3I(0, 0, -1), V3I(0, 0, 1), V3I(0, 0, -2), V3I(3, 0, -4), V3I(3, 0, 4),
     V3I(4, 0, -3), V3I(4, 0, 3), V3I(12, 0, -5), V3I(12, 0, 5)}

\* an oblique unit normal, and the rays traced against it: head-on from
\* outside, from inside, and at an angle
MatObliqueNormal == V3(Q(3, 5), PZero, Q(4, 5))
MatObliqueDirections ==
    {V3(Q(-3, 5), PZero, Q(-4, 5)), V3(Q(3, 5), PZero, Q(4, 5)), V3I(0, 0, -1)}

\* a normal whose norm is 1.0 in f32 while its squared norm is 1.0000001, and
\* the rays traced against it: head-on from outside and from inside
MatRoundedNormal == V3(Q(2, 3), Q(2, 3), Q(1, 3))
MatRoundedDirections == {V3_neg(MatRoundedNormal), MatRoundedNormal}

\* unit normals: along an axis and oblique
MatNormals == {V3I(0, 0, 1), V3I(0, 0, -1), MatObliqueNormal, MatRoundedNormal}

\* the values rand::random::<f32>() returns in Dielectric::scatter
MatDraws == {PZero, Q(1, 100), Q(1, 20), Q(1, 2), Q(99, 100)}

MatMetalArgs == {[op |-> "metal", albedo |-> a, fuzz |-> f] : a \in MatAlbedos, f \in MatFuzzes}

\* the values rand::random returns in V3::new_in_unit_sphere, three a round:
\* the points (0,0,0), (1/2,0,0), (0,0,9/10), (0,0,-9/10), (-1/2,1/2,-1/2),
\* and a round whose point is rejected before the point (0,0,1/2)
MatSphereDraws ==
    {<<Q(1, 2), Q(1, 2), Q(1, 2)>>, <<Q(3, 4), Q(1, 2), Q(1, 2)>>,
     <<Q(1, 2), Q(1, 2), Q(19, 20)>>, <<Q(1, 2), Q(1, 2), Q(1, 20)>>,
     <<Q(1, 4), Q(3, 4), Q(1, 4)>>,
     <<Q(99, 100), Q(99, 100), Q(99, 100), Q(1, 2), Q(1, 2), Q(3, 4)>>}

\* the materials of materials.rs that draw a point of the unit sphere
MatSphereMaterials ==
    {lambertian(solid(V3(Q(1, 2), Q(1, 2), Q(1, 2)))),
     metal(V3I(1, 1, 1), PZero), metal(V3I(1, 1, 1), Q(3, 10)), metal(V3I(1, 1, 1), I(1))}

\* one material of each kind Scene::color meets
MatMaterials == MatSphereMaterials \cup {dielectric(Q(3, 2)), diffuse_light(solid(V3I(4, 4, 4)))}

\* Materials::scatter of a Dielectric on every draw of rand::random, of a
\* Lambertian and a Metal on every draw of the point
MatScatterArgs ==
    {[op |-> "scatter", material |-> dielectric(i),
      rec |-> HitRecord(I(1), V3I(1, 1, 1), n, I(1), I(1)),
      draws |-> <<Q(1, 2), Q(1, 2), Q(1, 2)>>, u |-> u] :
        i \in MatRefIdx, n \in MatNormals, u \in MatDraws}
    \cup
    {[op |-> "scatter", material |-> m,
      rec |-> HitRecord(I(1), V3I(1, 1, 1), n, I(1), I(1)), draws |-> d, u |-> PZero] :
        m \in MatSphereMaterials, n \in {V3I(0, 0, 1), V3I(0, 0, -1)}, d \in MatSphereDraws}

\* the rays of MatDirections and one grazing the surface
MatRecordDirections == MatDirections \cup {V3I(1, 0, 0)}

MatRecordArgs ==
    {[op |-> "record", material |-> m,
      rec |-> HitRecord(I(1), V3I(1, 1, 1), n, I(1), I(1)), draws |-> d, u |-> u] :
        m \in MatMaterials, n \in {V3I(0, 0, 1), V3I(0, 0, -1)},
        d \in MatSphereDraws, u \in {PZero, Q(1, 2)}}

InitMat ==
    /\ abox = NoBox
    /\ bbox2 = NoBox
    /\ range = NoRange
    /\ prims = <<>>
    /\ bvh = None
    /\ out = NoOut
    /\ ColorIdle
    /\ \/ /\ pc = "metal"
          /\ arg \in MatMetalArgs
          /\ ray = NoRay
       \/ /\ pc = "scatter"
          /\ arg \in MatScatterArgs
          /\ ray \in {RayV3(V3_sub(arg.rec.point, d), d) :
                        d \in IF arg.rec.normal = MatObliqueNormal THEN MatObliqueDirections
                              ELSE IF arg.rec.normal = MatRoundedNormal THEN MatRoundedDirections
                              ELSE IF arg.material.tag = "Dielectric" THEN MatDirections
                              ELSE MatRecordDirections}
       \/ /\ pc = "record"
          /\ arg \in MatRecordArgs
          /\ ray \in {RayV3(V3_sub(arg.rec.point, d), d) : d \in MatRecordDirections}

\* Materials::metal(albedo, fuzz)
DoMetal ==
    /\ pc = "metal"
    /\ out' = [op |-> "metal", res |-> metal(arg.albedo, arg.fuzz)]
    /\ pc' = "done"
    /\ UNCHANGED <<abox, bbox2, ray, range, prims, bvh, arg>>
    /\ UNCHANGED colorVars

\* Materials::scatter(&ray, &rec)
DoScatter ==
    /\ pc = "scatter"
    /\ out' = [op |-> "scatter",
               res |-> Materials_scatter(arg.material, ray, arg.rec,
                                         V3_new_in_unit_sphere(arg.draws), arg.u)]
    /\ pc' = "done"
    /\ UNCHANGED <<abox, bbox2, ray, range, prims, bvh, arg>>
    /\ UNCHANGED colorVars

\* object.material.scatter(&ray, &rec), as Scene::color calls it
DoRecord ==
    /\ pc = "record"
    /\ \E res \in Materials_scatter_pdf(arg.material, ray, arg.rec,
                                         V3_new_in_unit_sphere(arg.draws), arg.u) :
            out' = [op |-> "record", res |-> res]
    /\ pc' = "done"
    /\ UNCHANGED <<abox, bbox2, ray, range, prims, bvh, arg>>
    /\ UNCHANGED colorVars

NextMat == DoMetal \/ DoScatter \/ DoRecord

SpecMat == InitMat /\ [][NextMat]_vars

----------------------------------------------------------------------------
(* Claims about the materials                                              *)

\* C19: for every fuzz passed to Materials::metal, values above 1 and
\* negative values among them, the fuzz stored in the Metal lies in [0, 1].
C19_FuzzClamped ==
    (pc = "done" /\ out.op = "metal") =>
        /\ FLe(I(0), out.res.fuzz)
        /\ FLe(out.res.fuzz, I(1))

\* the side of the surface the traced ray comes from, and Snell's law on it
DielFromInside == FGt(V3_dot(ray.direction, arg.rec.normal), I(0))
DielOutward == IF DielFromInside THEN V3_neg(arg.rec.normal) ELSE arg.rec.normal
DielRatio == IF DielFromInside THEN arg.material.ref_idx ELSE FDiv(I(1), arg.material.ref_idx)
DielUnit == V3_scale(ray.direction, FDiv(I(1), V3_norm(ray.direction)))
DielDt == V3_dot(DielUnit, DielOutward)
DielDisc == FSub(I(1), FMul(FMul(DielRatio, DielRatio), FSub(I(1), FMul(DielDt, DielDt))))
DielRefracted ==
    V3_sub(V3_scale(V3_sub(DielUnit, V3_scale(DielOutward, DielDt)), DielRatio),
           V3_scale(DielOutward, FSqrt(DielDisc)))
DielReflected ==
    V3_sub(ray.direction,
           V3_scale(arg.rec.normal, FMul(I(2), V3_dot(ray.direction, arg.rec.normal))))
DielCosine ==
    IF DielFromInside
    THEN FDiv(FMul(arg.material.ref_idx, V3_dot(ray.direction, arg.rec.normal)),
              V3_norm(ray.direction))
    ELSE FDiv(FNeg(V3_dot(ray.direction, arg.rec.normal)), V3_norm(ray.direction))
DielReflectance == Dielectric_schlick(arg.material, DielCosine)

\* C20: Dielectric::scatter always reports is_scattered = true, attenuation
\* (1,1,1) and a ray from the hit point; when refraction is impossible
\* (discriminant <= 0) the direction is the reflected one, otherwise it is the
\* reflected one exactly when the draw is below the Schlick reflectance, and
\* the refracted one when it is not.
C20_DielectricScatter ==
    (pc = "done" /\ out.op = "scatter" /\ arg.material.tag = "Dielectric") =>
        /\ out.res.is_scattered = TRUE
        /\ out.res.attenuation = V3I(1, 1, 1)
        /\ out.res.scattered.origin = arg.rec.point
        /\ FLe(DielDisc, I(0)) => out.res.scattered.direction = DielReflected
        /\ (FGt(DielDisc, I(0)) /\ FLt(arg.u, DielReflectance))
                => out.res.scattered.direction = DielReflected
        /\ (FGt(DielDisc, I(0)) /\ ~FLt(arg.u, DielReflectance))
                => out.res.scattered.direction = DielRefracted

\* refraction is possible, the draw is positive and below the reflectance:
\* the ray is reflected
C20_Witness ==
    /\ pc = "done"
    /\ out.op = "scatter"
    /\ arg.material.tag = "Dielectric"
    /\ FGt(DielDisc, I(0))
    /\ FGt(arg.u, I(0))
    /\ FLt(arg.u, DielReflectance)
    /\ FLt(DielReflectance, I(1))
    /\ out.res.scattered.direction = DielReflected
    /\ DielReflected # DielRefracted

\* total internal reflection is among the traced cases
C20_TotalReflectionTraced ==
    /\ pc = "done"
    /\ out.op = "scatter"
    /\ arg.material.tag = "Dielectric"
    /\ FLt(DielDisc, I(0))
    /\ out.res.scattered.direction = DielReflected

\* the refracted ray is among the traced cases
C20_RefractionTraced ==
    /\ pc = "done"
    /\ out.op = "scatter"
    /\ arg.material.tag = "Dielectric"
    /\ FGt(DielDisc, I(0))
    /\ out.res.scattered.direction = DielRefracted
    /\ DielReflected # DielRefracted

\* the traced ray strikes the surface head-on: a direction of norm 1.0 equal
\* to minus the normal
NormalIncidence ==
    /\ SameV3(ray.direction, V3_neg(arg.rec.normal))
    /\ V3_norm(ray.direction) = I(1)

\* C21: a Dielectric of ref_idx 1.0 hit at normal incidence has Schlick
\* reflectance 0 (for a direction whose squared norm rounds to 1.0000001 the
\* f32 value is a negative number of size 1e-35, below every draw as 0 is),
\* and for every random draw the scattered direction is the refracted one and
\* equals the incoming direction.
C21_NormalIncidence ==
    (pc = "done" /\ out.op = "scatter" /\ arg.material.tag = "Dielectric"
        /\ arg.material.ref_idx = I(1) /\ NormalIncidence) =>
        /\ FLe(DielReflectance, I(0))
        /\ FGt(DielReflectance, Q(-1, 1000000))
        /\ V3_square_norm(ray.direction) = I(1) => FEq(DielReflectance, I(0))
        /\ ~FLt(arg.u, DielReflectance)
        /\ FGt(DielDisc, I(0))
        /\ SameV3(out.res.scattered.direction, DielRefracted)
        /\ SameV3(out.res.scattered.direction, ray.direction)

\* the draw is 0, the smallest value rand::random can return, the normal is
\* oblique and the ray leaves undeviated
C21_Witness ==
    /\ pc = "done"
    /\ out.op = "scatter"
    /\ arg.material.tag = "Dielectric"
    /\ arg.material.ref_idx = I(1)
    /\ NormalIncidence
    /\ arg.u = PZero
    /\ arg.rec.normal = MatObliqueNormal
    /\ SameV3(out.res.scattered.direction, ray.direction)
    /\ ~SameV3(out.res.scattered.direction, DielReflected)

\* normal incidence on the normal whose squared norm is rounded: the
\* reflectance is not 0 but below it, and the ray leaves undeviated
C21_RoundedNormalTraced ==
    /\ pc = "done"
    /\ out.op = "scatter"
    /\ arg.material.tag = "Dielectric"
    /\ arg.material.ref_idx = I(1)
    /\ NormalIncidence
    /\ arg.rec.normal = MatRoundedNormal
    /\ arg.u = PZero
    /\ FLt(DielReflectance, I(0))
    /\ SameV3(out.res.scattered.direction, ray.direction)

C22_MetalRejectedTraced ==
    /\ pc = "done"
    /\ out.op = "record"
    /\ arg.material.tag = "Metal"
    /\ ~out.res.is_scattered
    /\ out.res.specular_ray # None

\* reflect(normalized incoming, normal) + fuzz * (point in the unit sphere),
\* component by component
MetalUnit == V3_scale(ray.direction, FDiv(I(1), V3_norm(ray.direction)))
MetalPerturbed ==
    [i \in 1..3 |->
        FAdd(FSub(MetalUnit[i],
                  FMul(arg.rec.normal[i], FMul(I(2), V3_dot(MetalUnit, arg.rec.normal)))),
             FMul(V3_new_in_unit_sphere(arg.draws)[i], arg.material.fuzz))]

\* C24: Metal::scatter reports is_scattered = true exactly when the perturbed
\* reflected direction has a strictly positive dot product with the hit
\* normal; with fuzz 0 and an incoming direction striking the front face the
\* scatter is accepted.
C24_MetalAccepts ==
    (pc = "done" /\ out.op = "scatter" /\ arg.material.tag = "Metal") =>
        /\ SameV3(out.res.scattered.direction, MetalPerturbed)
        /\ out.res.is_scattered <=> FGt(V3_dot(MetalPerturbed, arg.rec.normal), I(0))
        /\ (FEq(arg.material.fuzz, I(0)) /\ FLt(V3_dot(ray.direction, arg.rec.normal), I(0)))
                => out.res.is_scattered

\* a mirror struck obliquely on its front face accepts the scatter
C24_Witness ==
    /\ pc = "done"
    /\ out.op = "scatter"
    /\ arg.material.tag = "Metal"
    /\ FEq(arg.material.fuzz, I(0))
    /\ ray.direction = V3I(12, 0, -5)
    /\ FLt(V3_dot(ray.direction, arg.rec.normal), I(0))
    /\ out.res.is_scattered

\* the fuzz pushes a front-face reflection below the surface: rejected
C24_FuzzRejectedTraced ==
    /\ pc = "done"
    /\ out.op = "scatter"
    /\ arg.material.tag = "Metal"
    /\ FLt(V3_dot(ray.direction, arg.rec.normal), I(0))
    /\ FLt(V3_dot(MetalPerturbed, arg.rec.normal), I(0))
    /\ ~out.res.is_scattered

\* a direction along the surface (dot product exactly 0) is rejected
C24_GrazingTraced ==
    /\ pc = "done"
    /\ out.op = "scatter"
    /\ arg.material.tag = "Metal"
    /\ FEq(V3_dot(MetalPerturbed, arg.rec.normal), I(0))
    /\ ~out.res.is_scattered

\* the ray RotateY hands to its child, component by component
RotatedIn(f, v) ==
    <<FSub(FMul(f.cos_theta, v[1]), FMul(f.sin_theta, v[3])),
      v[2],
      FAdd(FMul(f.sin_theta, v[1]), FMul(f.cos_theta, v[3]))>>

\* the transposed rotation, component by component
RotatedOut(f, v) ==
    <<FAdd(FMul(f.cos_theta, v[1]), FMul(f.sin_theta, v[3])),
      v[2],
      FAdd(FMul(FNeg(f.sin_theta), v[1]), FMul(f.cos_theta, v[3]))>>

RotatedChildHit ==
    Figures_hit(arg.figure.figure,
                RayV3(RotatedIn(arg.figure, ray.origin), RotatedIn(arg.figure, ray.direction)),
                range[1], range[2], NoDraws).rec

\* the size of the numbers ray.extend_at(t) works on: 1 + |origin| + |t| |direction|
RotateYScale(r, t) ==
    FAdd(FAdd(I(1), V3_abs_sum(r.origin)), FMul(f32_abs(t), V3_abs_sum(r.direction)))

\* the statement of C25 as written, with equality of f32 values: RotateY.hit
\* hits exactly when its child is hit by the rotated ray, with the child's t;
\* the returned point is ray.extend_at(t) of the original ray; rotating the
\* returned point and normal the way the ray was rotated gives the child's
\* point and normal back; the Y components pass through unchanged.
C25_ExactInverse ==
    (pc \in {"box", "done"} /\ arg.figure.tag = "RotateY") =>
        /\ (out.hit = None) <=> (RotatedChildHit = None)
        /\ (out.hit # None) =>
            /\ SameF32(unwrap(out.hit).at, unwrap(RotatedChildHit).at)
            /\ SameV3(unwrap(out.hit).point, extend_at(ray, unwrap(out.hit).at))
            /\ SameV3(RotatedIn(arg.figure, unwrap(out.hit).point),
                      unwrap(RotatedChildHit).point)
            /\ SameV3(RotatedIn(arg.figure, unwrap(out.hit).normal),
                      unwrap(RotatedChildHit).normal)
            /\ SameF32(unwrap(out.hit).point[2], unwrap(RotatedChildHit).point[2])
            /\ SameF32(unwrap(out.hit).normal[2], unwrap(RotatedChildHit).normal[2])
            /\ SameF32(unwrap(out.hit).point[2],
                       FAdd(ray.origin[2], FMul(unwrap(out.hit).at, ray.direction[2])))

\* C25: RotateY.hit hits exactly when its child is hit by the rotated ray,
\* with the child's t unchanged; the Y components of the point and the normal
\* are the child's, unchanged; the returned point is the child's point under
\* the transposed rotation, which for a finite t is ray.extend_at(t) of the
\* original ray up to f32 rounding (exactly at angle 0), and rotating the
\* returned point the way the ray was rotated gives the child's point back up
\* to f32 rounding.
C25_RotateYInverse ==
    (pc \in {"box", "done"} /\ arg.figure.tag = "RotateY") =>
        /\ (out.hit = None) <=> (RotatedChildHit = None)
        /\ (out.hit # None) =>
            /\ SameF32(unwrap(out.hit).at, unwrap(RotatedChildHit).at)
            /\ SameF32(unwrap(out.hit).point[2], unwrap(RotatedChildHit).point[2])
            /\ SameF32(unwrap(out.hit).normal[2], unwrap(RotatedChildHit).normal[2])
            /\ SameF32(unwrap(out.hit).point[2],
                       FAdd(ray.origin[2], FMul(unwrap(out.hit).at, ray.direction[2])))
            /\ SameV3(unwrap(out.hit).point,
                      RotatedOut(arg.figure, unwrap(RotatedChildHit).point))
            /\ SameV3(unwrap(out.hit).normal,
                      RotatedOut(arg.figure, unwrap(RotatedChildHit).normal))
            /\ IsZero(arg.figure.sin_theta) =>
                    SameV3(unwrap(out.hit).point, extend_at(ray, unwrap(out.hit).at))
            /\ IsFinite(unwrap(out.hit).at) =>
                /\ NearV3(unwrap(out.hit).point, extend_at(ray, unwrap(out.hit).at),
                          RotateYScale(ray, unwrap(out.hit).at))
                /\ NearV3(RotatedIn(arg.figure, unwrap(out.hit).point),
                          unwrap(RotatedChildHit).point,
                          FAdd(I(1), V3_abs_sum(unwrap(RotatedChildHit).point)))
                /\ NearV3(RotatedIn(arg.figure, unwrap(out.hit).normal),
                          unwrap(RotatedChildHit).normal,
                          FAdd(I(1), V3_abs_sum(unwrap(RotatedChildHit).normal)))

\* a hit through a rotation by the oblique angle, which moves the point and
\* returns it one rounding away from ray.extend_at(t)
C25_Witness ==
    /\ pc = "done"
    /\ arg.figure.tag = "RotateY"
    /\ arg.figure = rotate_y(ObliqueAngle, arg.figure.figure)
    /\ out.hit # None
    /\ IsFinite(unwrap(out.hit).at)
    /\ ~SameV3(unwrap(out.hit).point, unwrap(RotatedChildHit).point)
    /\ ~SameV3(unwrap(out.hit).point, extend_at(ray, unwrap(out.hit).at))
    /\ NearV3(unwrap(out.hit).point, extend_at(ray, unwrap(out.hit).at),
              RotateYScale(ray, unwrap(out.hit).at))

----------------------------------------------------------------------------
(* Claims about the pixel written by main's closure                        *)

\* x clamped to [lo, hi]: lo below lo, hi above hi, x itself otherwise
Clamped(x, lo, hi) == IF FLt(x, lo) THEN lo ELSE IF FGt(x, hi) THEN hi ELSE x

\* floor(clamp(sqrt(mean), 0, 1) * 255.99) as an 8-bit channel
Quantised(mean) == f32_as_u8(FMul(Clamped(FSqrt(mean), I(0), I(1)), Q(25599, 100)))

MeanOfSamples == V3_scale(sum, FDiv(I(1), I(ns)))

\* C23: the pixel is written from the mean of exactly ns samples, and every
\* channel is the integer floor(clamp(sqrt(mean), 0, 1) * 255.99) in 0..255,
\* whatever the mean, a mean above 1, negative or NaN included.
C23_PixelQuantised ==
    (pc = "finished") =>
        /\ nsamp = ns
        /\ \A i \in 1..3 :
            /\ pixel[i] \in 0..255
            /\ pixel[i] = Quantised(MeanOfSamples[i])

\* the channels of a pixel whose mean is a number are as claimed
C23_NumberMeanTraced ==
    /\ pc = "finished"
    /\ nsamp = ns
    /\ \A i \in 1..3 :
        /\ FGt(MeanOfSamples[i], I(1))
        /\ pixel[i] = 255
        /\ pixel[i] = Quantised(MeanOfSamples[i])

=============================================================================
